---- MODULE Spec2Model ----
(***************************************************************************)
(* Cache abstraction and cache-aside access-control layer of the           *)
(* auth-nodejs-quickstart backend: MemoryCache / RedisCache / NoOpCache    *)
(* behind ICache, the CacheHelpers read-through functions, and the         *)
(* membership mutation routes that invalidate after a store write.         *)
(*                                                                         *)
(* Identifiers are sequences of tokens, so that the key templates          *)
(* `${userId}:${projectId}` and `${type}:${parts.join(':')}` are computed   *)
(* as concatenations.  Time is Date.now() in milliseconds.                 *)
(***************************************************************************)
EXTENDS Integers, Sequences, FiniteSets, TLC

\* ------------------------------------------------------------------------
\* Bounds of the model
\* ------------------------------------------------------------------------
MaxReq == 1          \* cache-aside calls in flight next to the mutation
MaxTicks == 3        \* the clock runs from 0 to MaxTicks seconds

\* cacheConfig.ttl.projectAccess and cacheConfig.ttl.userProjects, in
\* seconds: configurable (CACHE_TTL_PROJECT_ACCESS, CACHE_TTL_USER_PROJECTS,
\* defaults 1800 and 600), scaled down here so that entries expire within
\* MaxTicks.
TtlProjectAccess == 2
TtlUserProjects == 1

\* ------------------------------------------------------------------------
\* Program constants
\* ------------------------------------------------------------------------
MsPerSec == 1000     \* expiresAt: Date.now() + ttl * 1000

\* u2 owns the project and issues the membership mutations; u1 is the user
\* whose membership changes and whose access is checked.
Users == {<<"u1">>, <<"u2">>}
Subjects == {<<"u1">>}
Projects == {<<"p1">>}
ProjectOrder == <<(<<"p1">>)>>
\* A second project, for the runs that need one
AllProjects == {<<"p1">>, <<"p2">>}
AllProjectOrder == <<(<<"p1">>), (<<"p2">>)>>
Roles == {"owner", "editor", "viewer"}
NoMember == "none"
ClientName == "acme"

CacheKinds == {"memory", "redis", "noop", "unset"}
CallIds == 1..MaxReq

\* null / undefined results
Absent == [absent |-> TRUE]
NoEntry == [none |-> TRUE]

\* ------------------------------------------------------------------------
\* Maps (JavaScript Map / Redis keyspace): functions with a dynamic domain
\* ------------------------------------------------------------------------
EmptyMap == [k \in {} |-> NoEntry]

MapGet(map, key) == IF key \in DOMAIN map THEN map[key] ELSE NoEntry

MapSet(map, key, value) ==
    [k \in DOMAIN map \cup {key} |-> IF k = key THEN value ELSE map[k]]

MapDelete(map, key) == [k \in DOMAIN map \ {key} |-> map[k]]

\* ------------------------------------------------------------------------
\* Records built by the fallbacks
\* ------------------------------------------------------------------------
\* checkProjectAccess: the record built from the member document
AccessRecord(u, p, role, t) ==
    [userId |-> u, projectId |-> p, role |-> role,
     client_name |-> ClientName, slug |-> p, cachedAt |-> t]

\* getCachedUserProjects: { userId, projects, cachedAt: Date.now() }
UserProjectsRecord(u, projects, t) ==
    [userId |-> u, projects |-> projects, cachedAt |-> t]

\* ------------------------------------------------------------------------
\* MemoryCache
\* ------------------------------------------------------------------------
\* const key = `${userId}:${projectId}`
MemKey(u, p) == u \o <<":">> \o p

\* An isExpired that never reports expiry
IsExpiredNever(entry, t) == FALSE

IsExpired(entry, t) == entry.expiresAt < t

MemEntryLive(map, key, t) == key \in DOMAIN map /\ ~IsExpired(map[key], t)

\* A get that misses whatever the map holds
MemGetResultMiss(map, key, t) == Absent

\* get: if (!entry || isExpired(entry)) { delete; return null } return data
MemGetResult(map, key, t) ==
    IF MemEntryLive(map, key, t) THEN map[key].data ELSE Absent

MemGetMap(map, key, t) ==
    IF MemEntryLive(map, key, t) THEN map ELSE MapDelete(map, key)

\* A set that multiplies the seconds by a thousand twice
MemSetMapLong(map, key, data, ttl, t) ==
    MapSet(map, key, [data |-> data,
                      expiresAt |-> t + ttl * MsPerSec * MsPerSec,
                      storedAt |-> t])

\* A set that patches an entry already there: new data, old expiry
MemSetMapPatch(map, key, data, ttl, t) ==
    MapSet(map, key,
           IF key \in DOMAIN map
           THEN [map[key] EXCEPT !.data = data]
           ELSE [data |-> data, expiresAt |-> t + ttl * MsPerSec,
                 storedAt |-> t])

\* A set that drops the entry
MemSetMapDropped(map, key, data, ttl, t) == map

\* set: { data, expiresAt: Date.now() + ttl * 1000 }; storedAt is a history
\* field, written here and read by the properties only
MemSetMap(map, key, data, ttl, t) ==
    MapSet(map, key, [data |-> data, expiresAt |-> t + ttl * MsPerSec,
                      storedAt |-> t])

\* A sweep that also deletes the entries expiring at this very instant
MemCleanupMapEager(map, t) ==
    [k \in {x \in DOMAIN map : ~(map[x].expiresAt <= t)} |-> map[k]]

\* cleanup(): delete every entry with expiresAt < now
MemCleanupMap(map, t) ==
    [k \in {x \in DOMAIN map : ~(map[x].expiresAt < t)} |-> map[k]]

\* ------------------------------------------------------------------------
\* RedisCache
\* ------------------------------------------------------------------------
\* getKey(type, ...parts) = `${type}:${parts.join(':')}`
RECURSIVE JoinColon(_)
JoinColon(parts) ==
    IF Len(parts) = 0 THEN <<>>
    ELSE IF Len(parts) = 1 THEN parts[1]
    ELSE parts[1] \o <<":">> \o JoinColon(Tail(parts))

GetKey(type, parts) == <<type>> \o <<":">> \o JoinColon(parts)

\* JSON.stringify / JSON.parse of the two cached payloads: the text is the
\* sequence of the field values in declaration order.
\* null becomes the text "null" and back.
StringifyAccess(a) ==
    IF a = Absent THEN <<"null">>
    ELSE <<a.userId, a.projectId, a.role, a.client_name, a.slug, a.cachedAt>>

ParseAccess(s) ==
    IF s = <<"null">> THEN Absent
    ELSE [userId |-> s[1], projectId |-> s[2], role |-> s[3],
          client_name |-> s[4], slug |-> s[5], cachedAt |-> s[6]]

StringifyUserProjects(c) ==
    <<c.userId, [i \in 1..Len(c.projects) |-> StringifyAccess(c.projects[i])],
      c.cachedAt>>

ParseUserProjects(s) ==
    [userId |-> s[1],
     projects |-> [i \in 1..Len(s[2]) |-> ParseAccess(s[2][i])],
     cachedAt |-> s[3]]

\* The server drops a key once its SETEX time-to-live has run out.
RedisLive(store, key, t) == key \in DOMAIN store /\ ~(store[key].expiresAt < t)

\* client.get(key): the stored text, or null (no text)
NoText == <<>>

RedisGetText(store, key, t) ==
    IF RedisLive(store, key, t) THEN store[key].text ELSE NoText

\* The server's own expiry: the keys still alive at time t
RedisExpire(store, t) ==
    [k \in {x \in DOMAIN store : ~(store[x].expiresAt < t)} |-> store[k]]

\* client.setEx(key, ttl, text)
RedisSetEx(store, key, ttl, text, t) ==
    MapSet(store, key, [text |-> text, expiresAt |-> t + ttl * MsPerSec,
                        storedAt |-> t])

\* ------------------------------------------------------------------------
\* State
\* ------------------------------------------------------------------------
VARIABLES
    life,               \* configuration, timers and client of the backend
    cacheKind,          \* CacheHelpers.cacheInstance: which ICache is active
    connected,          \* RedisCache.connected
    accessCache,        \* MemoryCache.accessCache
    userProjectsCache,  \* MemoryCache.userProjectsCache
    redisStore,         \* keyspace of the Redis server
    now,                \* Date.now()
    store,              \* membership documents: (user, project) -> role
    req,                \* cache-aside calls in flight
    mut,                \* the membership mutation request in flight
    invClean,           \* history: keys invalidated and not stored since
    absentClean,        \* history: keys whose last lookup found no member
    container,          \* documents of one (client_name, slug) partition
    handlers            \* member-route handlers in flight

vars == <<life, cacheKind, connected, accessCache, userProjectsCache, redisStore,
          now, store, req, mut, invClean, absentClean, container, handlers>>

\* The cache-aside calls the server is handling
ReqIds == DOMAIN req

\* ------------------------------------------------------------------------
\* ICache as the helpers see it
\* ------------------------------------------------------------------------
\* isConnected(): MemoryCache true, NoOpCache false, RedisCache its flag
IsConnected(kind, flag) ==
    CASE kind = "memory" -> TRUE
      [] kind = "redis" -> flag
      [] OTHER -> FALSE

\* A helper that tests only whether a backend has been set
BypassUnsetOnly(kind, flag) == kind = "unset"

\* if (!cacheInstance || !cacheInstance.isConnected())  =>  bypass
Bypass(kind, flag) == kind = "unset" \/ ~IsConnected(kind, flag)

\* A helper that stores whatever the fallback returned
ShouldStoreAlways(access) == TRUE

\* if (access) { await cacheInstance.setProjectAccess(...) }
ShouldStore(access) == access # Absent

\* A RedisCache method without its try/catch
RedisErrorEscapesAlways(failed) == failed

\* RedisCache set/get/invalidate wrap the client call in try/catch and log:
\* a client error never leaves the method.
RedisErrorEscapes(failed) == FALSE

\* Invalidations that let a failed del or scan reach the caller
InvalidateErrorEscapesAlways(failed) == failed

\* RedisCache invalidateUserProjects / invalidateProjectAccess /
\* invalidateProjectCache: the del and scan calls sit in one try/catch that
\* logs.
InvalidateErrorEscapes(failed) == FALSE

\* The entry the backend holds for getProjectAccess(u, p), in the form
\* { data, expiresAt }, or NoEntry.
AccessEntryOf(kind, mem, rstore, u, p) ==
    CASE kind = "memory" -> MapGet(mem, MemKey(u, p))
      [] kind = "redis" ->
            IF GetKey("access", <<u, p>>) \in DOMAIN rstore
            THEN [data |-> ParseAccess(rstore[GetKey("access", <<u, p>>)].text),
                  expiresAt |-> rstore[GetKey("access", <<u, p>>)].expiresAt,
                  storedAt |-> rstore[GetKey("access", <<u, p>>)].storedAt]
            ELSE NoEntry
      [] OTHER -> NoEntry

\* The same for getUserProjects(u).
ListEntryOf(kind, mem, rstore, u) ==
    CASE kind = "memory" -> MapGet(mem, u)
      [] kind = "redis" ->
            IF GetKey("user-projects", <<u>>) \in DOMAIN rstore
            THEN [data |-> ParseUserProjects(rstore[GetKey("user-projects", <<u>>)].text),
                  expiresAt |-> rstore[GetKey("user-projects", <<u>>)].expiresAt,
                  storedAt |-> rstore[GetKey("user-projects", <<u>>)].storedAt]
            ELSE NoEntry
      [] OTHER -> NoEntry

\* History keys: one per cached access record and one per cached list
AKey(u, p) == <<"access", u, p>>
LKey(u) == <<"list", u>>

\* The projects that have member documents, in the order of the query
StoreOrder(st) ==
    SelectSeq(AllProjectOrder, LAMBDA p : \E k \in DOMAIN st : k[2] = p)

\* ProjectMemberRepository.getUserProjects: the user's member documents
RECURSIVE UserRows(_, _, _)
UserRows(st, u, order) ==
    IF Len(order) = 0 THEN <<>>
    ELSE (IF st[<<u, Head(order)>>] = NoMember THEN <<>>
          ELSE << <<Head(order), st[<<u, Head(order)>>]>> >>)
         \o UserRows(st, u, Tail(order))

\* ... mapped to CachedProjectAccess with cachedAt: Date.now()
RowsToAccess(u, rows, t) ==
    [i \in 1..Len(rows) |-> AccessRecord(u, rows[i][1], rows[i][2], t)]

\* ------------------------------------------------------------------------
\* Configuration, backend selection and the backend's life cycle
\* ------------------------------------------------------------------------
MaxConnects == 3     \* connect() calls on one backend instance

\* cacheConfig: CACHE_ENABLED, CACHE_TYPE ("other": any unrecognized text),
\* whether REDIS_HOST and REDIS_ACCESS_KEY are set
Configs ==
    [enabled : BOOLEAN, kind : {"redis", "memory", "none", "other"},
     host : BOOLEAN, key : BOOLEAN]

\* CacheConfig's validation at load time
ValidateConfig(c) ==
    IF c.enabled /\ c.kind = "redis" /\ ~c.host
    THEN [c EXCEPT !.kind = "memory"] ELSE c

\* A factory whose default branch disables caching
SelectVariantStrict(c) ==
    IF ~c.enabled THEN "noop"
    ELSE CASE c.kind = "redis" -> IF ~c.host THEN "memory" ELSE "redis"
           [] c.kind = "memory" -> "memory"
           [] OTHER -> "noop"

\* CacheFactory.createCache: the enabled test and the switch on the type
SelectVariant(c) ==
    IF ~c.enabled THEN "noop"
    ELSE CASE c.kind = "redis" -> IF ~c.host THEN "memory" ELSE "redis"
           [] c.kind = "memory" -> "memory"
           [] c.kind = "none" -> "noop"
           [] OTHER -> "memory"

\* RedisCache constructor: authType = accessKey ? 'access-key' : 'entra-id'
AuthType(c) == IF c.key THEN "access-key" ELSE "entra-id"

\* Before createCache.  timers: the intervals scheduled by the instance;
\* handle: cleanupInterval / tokenRefreshTimer (0: null); client: the
\* instance's Redis client; leaked: open clients the instance no longer
\* refers to; last: how the last connect()/disconnect() on it ended;
\* lastRefresh: how the last token refresh ended, refreshBit flipping with
\* every attempt.
NewLife(c) ==
    [phase |-> "unstarted", config |-> c, auth |-> "none", timers |-> {},
     handle |-> 0, connects |-> 0, client |-> "none", leaked |-> 0,
     last |-> "none", connectThrew |-> FALSE, raised |-> FALSE,
     lastRefresh |-> "none", refreshBit |-> FALSE]

\* connect() of the variant: MemoryCache sets a new interval over the old
\* handle; RedisCache creates a new client over the old one, awaits
\* client.connect() (ok: it resolves) and then, for Entra ID, sets a new
\* refresh interval over the old handle; NoOpCache does nothing.
ConnectLife(kind, l, ok) ==
    CASE kind = "memory" ->
           [l EXCEPT !.timers = @ \cup {l.connects + 1},
                     !.handle = l.connects + 1,
                     !.connects = @ + 1, !.last = "connect"]
      [] kind = "redis" ->
           [l EXCEPT !.client = IF ok THEN "open" ELSE "closed",
                     !.leaked = IF l.client = "open" THEN @ + 1 ELSE @,
                     !.timers = IF ok /\ l.auth = "entra-id"
                                THEN @ \cup {l.connects + 1} ELSE @,
                     !.handle = IF ok /\ l.auth = "entra-id"
                                THEN l.connects + 1 ELSE @,
                     !.connects = @ + 1,
                     !.last = IF ok THEN "connect" ELSE "connectThrew"]
      [] OTHER -> [l EXCEPT !.connects = @ + 1, !.last = "connect"]

\* A RedisCache.disconnect that calls quit() without testing this.client
DisconnectLifeUnguarded(kind, l, quitOk) ==
    CASE kind = "memory" ->
           [l EXCEPT !.timers = @ \ {l.handle}, !.last = "disconnect"]
      [] kind = "redis" ->
           [l EXCEPT !.timers = @ \ {l.handle}, !.handle = 0,
                     !.client = IF l.client = "open" /\ quitOk
                                THEN "closed" ELSE @,
                     !.last = IF l.client # "none" /\ quitOk
                              THEN "disconnect" ELSE "disconnectThrew"]
      [] OTHER -> [l EXCEPT !.last = "disconnect"]

\* disconnect() of the variant: MemoryCache clears the interval of its
\* handle, if any, and keeps the handle; RedisCache clears the interval of
\* its handle and nulls it, then quits its client, if any (quitOk: quit
\* resolves); NoOpCache does nothing.
DisconnectLife(kind, l, quitOk) ==
    CASE kind = "memory" ->
           [l EXCEPT !.timers = @ \ {l.handle}, !.last = "disconnect"]
      [] kind = "redis" ->
           [l EXCEPT !.timers = @ \ {l.handle}, !.handle = 0,
                     !.client = IF l.client = "open" /\ quitOk
                                THEN "closed" ELSE @,
                     !.last = IF l.client = "none" \/ quitOk
                              THEN "disconnect" ELSE "disconnectThrew"]
      [] OTHER -> [l EXCEPT !.last = "disconnect"]

\* A factory that lets the rejection of connect() through
CreateCacheRaisesAlways(threw) == threw

\* createCache: try { await cache.connect() } catch { ... NoOpCache }
CreateCacheRaises(threw) == FALSE

\* The life record once createCache has returned: the selected variant
\* connected, or, its connect() having thrown (ok false), a new NoOpCache
\* connected; the disabled path returns a NoOpCache without connect().
CreatedLife(l, ok) ==
    LET c == ValidateConfig(l.config)
        sel == SelectVariant(c)
        made == [l EXCEPT !.auth = IF sel = "redis" THEN AuthType(c)
                                   ELSE "none"]
    IN  IF ~c.enabled THEN [made EXCEPT !.phase = "running"]
        ELSE IF ok THEN [ConnectLife(sel, made, TRUE) EXCEPT
                            !.phase = "running"]
        ELSE IF CreateCacheRaises(TRUE)
        THEN [ConnectLife(sel, made, FALSE) EXCEPT
                 !.phase = "failed", !.connectThrew = TRUE, !.raised = TRUE]
        ELSE [ConnectLife("noop", [made EXCEPT !.auth = "none"], TRUE) EXCEPT
                 !.phase = "running", !.connectThrew = TRUE]

\* The backend createCache returns
CreatedKind(l, ok) ==
    LET c == ValidateConfig(l.config)
    IN  IF ~c.enabled THEN "noop"
        ELSE IF ok THEN SelectVariant(c)
        ELSE IF CreateCacheRaises(TRUE) THEN "unset"
        ELSE "noop"

\* A configuration under which createCache returns the given backend
ConfigFor(kind) ==
    CASE kind = "redis" ->
           [enabled |-> TRUE, kind |-> "redis", host |-> TRUE, key |-> TRUE]
      [] kind = "noop" ->
           [enabled |-> TRUE, kind |-> "none", host |-> FALSE, key |-> FALSE]
      [] OTHER ->
           [enabled |-> TRUE, kind |-> "memory", host |-> FALSE, key |-> FALSE]

\* The life record of a server running with the given backend ("unset":
\* createCache has not returned yet)
StartedLife(kind) ==
    IF kind = "unset" THEN NewLife(ConfigFor(kind))
    ELSE CreatedLife(NewLife(ConfigFor(kind)), TRUE)


IdleReq ==
    [op |-> "idle", pc |-> "idle", userId |-> <<>>, projectId |-> <<>>,
     bypass |-> FALSE, hit |-> FALSE, member |-> NoMember, rows |-> <<>>,
     fbCalls |-> 0, fbResult |-> Absent, fbList |-> <<>>,
     fbError |-> "none", raised |-> "none", fresh |-> FALSE,
     result |-> Absent, resultList |-> <<>>, err |-> FALSE,
     \* history of the call, read by the properties only (fresh: no member
     \* document has been written since the call queried the store)
     getTime |-> 0, gotEntry |-> NoEntry, sawInv |-> FALSE,
     sawAbsent |-> FALSE, ops |-> 0, getFailed |-> FALSE, setOk |-> FALSE,
     setFailed |-> FALSE, preSet |-> NoEntry, postSet |-> NoEntry]

\* Every call is either idle or suspended on the store ("fetch": its query
\* is on its way, "resume": the answer is on its way back).  "missed" and
\* "done" are the instants right after the backend's get and right after
\* the return; the call moves on from them before anything else runs.
NoneReturning ==
    /\ \A r \in ReqIds : req[r].pc \notin {"missed", "done"}
    /\ mut.pc # "returned"

\* The partition holds at most one project document and any number of
\* member documents; used: the project ids handed out so far; deleted: the
\* ids of the projects whose DELETE has responded (history)
NoProject == <<>>

\* (serial: how many randomUUID() member ids have been drawn)
EmptyContainer ==
    [project |-> NoProject, members |-> {}, used |-> {}, deleted |-> {},
     serial |-> 0]

HandlerIds == {1, 2}

NoDoc == [none |-> TRUE]

\* op: the route; userId, role: the member and role the request names;
\* projectId: authReq.projectId; found: what getMember / getById returned;
\* calls: the invalidation helpers awaited so far; sole (history): the
\* named user was the only owner of the project when DELETE read the
\* members
IdleHandler ==
    [op |-> "idle", pc |-> "idle", userId |-> <<>>, projectId |-> NoProject,
     role |-> NoMember, found |-> NoDoc, status |-> 0, calls |-> <<>>,
     sole |-> FALSE]

NoHandlers == [h \in HandlerIds |-> IdleHandler]

\* calls: the invalidation helpers awaited so far (history)
IdleMut ==
    [pc |-> "idle", userId |-> <<>>, projectId |-> <<>>, status |-> 0,
     calls |-> <<>>, failed |-> FALSE, raised |-> FALSE,
     \* the guard chain in front of the handler: the role the route asks
     \* for, the role checkProjectAccess put on the request, the middleware
     \* that called next() so far, in order, and what ended the chain
     \* (lookup: what the membership lookup of the request came to)
     minRole |-> "viewer", userRole |-> NoMember, trail |-> <<>>,
     why |-> "none", lookup |-> "none"]

\* "returned" is the instant right after a bare helper call has returned to
\* its caller, which takes over before anything else runs.

Init ==
    /\ cacheKind \in CacheKinds
    /\ life = StartedLife(cacheKind)
    /\ connected = (cacheKind = "redis")
    /\ accessCache = EmptyMap
    /\ userProjectsCache = EmptyMap
    /\ redisStore = EmptyMap
    /\ now = 0
    /\ store = [k \in Users \X Projects |->
                   IF k[1] \in Subjects THEN "viewer" ELSE "owner"]
    /\ req = [r \in CallIds |-> IdleReq]
    /\ mut = IdleMut
    /\ invClean = {}
    /\ absentClean = {}
    /\ container = EmptyContainer
    /\ handlers = NoHandlers

\* ------------------------------------------------------------------------
\* getProjectAccess / setProjectAccess of the active backend
\* ------------------------------------------------------------------------
\* RedisCache.getProjectAccess: null when not connected, null on a client
\* error, else data ? JSON.parse(data) : null
RedisGetAccess(flag, rstore, u, p, t, failed) ==
    IF ~flag \/ failed THEN Absent
    ELSE IF RedisGetText(rstore, GetKey("access", <<u, p>>), t) = NoText
         THEN Absent
         ELSE ParseAccess(RedisGetText(rstore, GetKey("access", <<u, p>>), t))

GetAccessResult(kind, flag, mem, rstore, u, p, t, failed) ==
    CASE kind = "memory" -> MemGetResult(mem, MemKey(u, p), t)
      [] kind = "redis" -> RedisGetAccess(flag, rstore, u, p, t, failed)
      [] OTHER -> Absent

\* Whether a set issued now reaches the storage
\* A RedisCache whose set sends its command without looking at connected
SetAcceptedUnguarded(kind, flag, failed) ==
    CASE kind = "memory" -> TRUE
      [] kind = "redis" -> ~failed
      [] OTHER -> FALSE

SetAccepted(kind, flag, failed) ==
    CASE kind = "memory" -> TRUE
      [] kind = "redis" -> flag /\ ~failed
      [] OTHER -> FALSE

\* Only a command sent to the Redis client can fail
CanFail(kind, flag, failed) == failed => (kind = "redis" /\ flag)

\* ------------------------------------------------------------------------
\* getCachedProjectAccess(userId, projectId, fetchFromDb)
\* ------------------------------------------------------------------------
\* The call up to its first suspension on the store: the bypass test, the
\* backend's get when the backend is used, and on a miss or a bypass the
\* invocation of fetchFromDb(), which sends the query.
StartAccess(r, u, p, failed) ==
    /\ NoneReturning
    /\ req[r].op = "idle"
    /\ LET byp == Bypass(cacheKind, connected)
            cached == IF byp THEN Absent
                      ELSE GetAccessResult(cacheKind, connected, accessCache,
                                           redisStore, u, p, now, failed)
            isHit == cached # Absent
        IN  /\ CanFail(cacheKind, connected, failed)
            /\ byp => ~failed
            /\ req' = [req EXCEPT ![r] =
                   [IdleReq EXCEPT
                      !.op = "access",
                      !.pc = IF isHit \/ RedisErrorEscapes(failed)
                             THEN "done" ELSE "missed",
                      !.err = RedisErrorEscapes(failed),
                      !.fbCalls = IF isHit \/ RedisErrorEscapes(failed)
                                  THEN 0 ELSE 1,
                      !.userId = u, !.projectId = p,
                      !.bypass = byp, !.hit = isHit,
                      !.result = cached,
                      !.getTime = now,
                      !.gotEntry = AccessEntryOf(cacheKind, accessCache,
                                                 redisStore, u, p),
                      !.sawInv = (AKey(u, p) \in invClean),
                      !.sawAbsent = (AKey(u, p) \in absentClean),
                      !.getFailed = failed,
                      !.ops = IF byp THEN 0 ELSE 1]]
            /\ accessCache' = IF ~byp /\ cacheKind = "memory"
                              THEN MemGetMap(accessCache, MemKey(u, p), now)
                              ELSE accessCache
    /\ UNCHANGED <<container, handlers, life, cacheKind, connected, userProjectsCache, redisStore, now,
                   store, mut, invClean, absentClean>>

\* The call is now suspended on the query; what the get saw is history
Proceed(r) ==
    /\ req[r].pc = "missed"
    /\ req' = [req EXCEPT ![r] =
           [IdleReq EXCEPT !.op = req[r].op, !.pc = "fetch",
                           !.userId = req[r].userId,
                           !.projectId = req[r].projectId,
                           !.bypass = req[r].bypass,
                           !.fbCalls = req[r].fbCalls,
                           !.ops = req[r].ops]]
    /\ UNCHANGED <<container, handlers, life, cacheKind, connected, accessCache, userProjectsCache,
                   redisStore, now, store, mut, invClean, absentClean>>

\* fetchFromDb(): projectMemberRepo.getMember reads the member document
FallbackAccess(r) ==
    /\ NoneReturning
    /\ req[r].op = "access" /\ req[r].pc = "fetch"
    /\ req' = [req EXCEPT ![r].member = store[<<req[r].userId, req[r].projectId>>],
                          ![r].fresh = TRUE,
                          ![r].pc = "resume"]
    /\ UNCHANGED <<container, handlers, life, cacheKind, connected, accessCache, userProjectsCache,
                   redisStore, now, store, mut, invClean,
                   absentClean>>

\* The rest of the call once the member document has arrived: build the
\* record, store it when there is one, return it.
ResumeAccess(r, failed) ==
    /\ NoneReturning
    /\ req[r].op = "access" /\ req[r].pc = "resume"
    /\ LET u == req[r].userId
            p == req[r].projectId
            access == IF req[r].member = NoMember THEN Absent
                      ELSE AccessRecord(u, p, req[r].member, now)
            doSet == ~req[r].bypass /\ ShouldStore(access)
            written == doSet /\ SetAccepted(cacheKind, connected, failed)
            thrown == doSet /\ failed /\ RedisErrorEscapes(failed)
        IN  /\ CanFail(cacheKind, connected, failed)
            /\ failed => doSet
            /\ accessCache' = IF written /\ cacheKind = "memory"
                              THEN MemSetMap(accessCache, MemKey(u, p), access,
                                             TtlProjectAccess, now)
                              ELSE accessCache
            /\ redisStore' = IF written /\ cacheKind = "redis"
                             THEN RedisSetEx(redisStore, GetKey("access", <<u, p>>),
                                             TtlProjectAccess,
                                             StringifyAccess(access), now)
                             ELSE redisStore
            /\ invClean' = IF written THEN invClean \ {AKey(u, p)} ELSE invClean
            /\ absentClean' =
                 IF written THEN absentClean \ {AKey(u, p)}
                 ELSE IF access = Absent /\ ~req[r].bypass
                         /\ AccessEntryOf(cacheKind, accessCache, redisStore,
                                          u, p) = NoEntry
                      THEN absentClean \cup {AKey(u, p)}
                      ELSE absentClean
            /\ req' = [req EXCEPT
                         ![r].pc = "done",
                         ![r].fbResult = access,
                         ![r].result = IF thrown THEN Absent ELSE access,
                         ![r].err = thrown,
                         ![r].ops = IF doSet THEN @ + 1 ELSE @,
                         ![r].setOk = written,
                         ![r].setFailed = failed,
                         ![r].preSet = AccessEntryOf(cacheKind, accessCache,
                                                     redisStore, u, p),
                         ![r].postSet = AccessEntryOf(cacheKind, accessCache',
                                                      redisStore', u, p)]
    /\ UNCHANGED <<container, handlers, life, cacheKind, connected, userProjectsCache, now, store, mut>>

\* ------------------------------------------------------------------------
\* getCachedUserProjects(userId, fetchFromDb)
\* ------------------------------------------------------------------------
\* RedisCache.getUserProjects
RedisGetList(flag, rstore, u, t, failed) ==
    IF ~flag \/ failed THEN Absent
    ELSE IF RedisGetText(rstore, GetKey("user-projects", <<u>>), t) = NoText
         THEN Absent
         ELSE ParseUserProjects(RedisGetText(rstore, GetKey("user-projects", <<u>>), t))

GetListResult(kind, flag, mem, rstore, u, t, failed) ==
    CASE kind = "memory" -> MemGetResult(mem, u, t)
      [] kind = "redis" -> RedisGetList(flag, rstore, u, t, failed)
      [] OTHER -> Absent

\* A helper that takes a cached empty list for a miss
ListHitNonEmpty(cached) == cached # Absent /\ cached.projects # <<>>

\* if (cached): the wrapper object is truthy whatever its projects hold
ListHit(cached) == cached # Absent

StartList(r, u, failed) ==
    /\ NoneReturning
    /\ req[r].op = "idle"
    /\ LET byp == Bypass(cacheKind, connected)
            cached == IF byp THEN Absent
                      ELSE GetListResult(cacheKind, connected, userProjectsCache,
                                         redisStore, u, now, failed)
            isHit == ListHit(cached)
        IN  /\ CanFail(cacheKind, connected, failed)
            /\ byp => ~failed
            /\ req' = [req EXCEPT ![r] =
                   [IdleReq EXCEPT
                      !.op = "list",
                      !.pc = IF isHit \/ RedisErrorEscapes(failed)
                             THEN "done" ELSE "missed",
                      !.err = RedisErrorEscapes(failed),
                      !.fbCalls = IF isHit \/ RedisErrorEscapes(failed)
                                  THEN 0 ELSE 1,
                      !.userId = u,
                      !.bypass = byp, !.hit = isHit,
                      !.resultList = IF isHit THEN cached.projects ELSE <<>>,
                      !.getTime = now,
                      !.gotEntry = ListEntryOf(cacheKind, userProjectsCache,
                                               redisStore, u),
                      !.sawInv = (LKey(u) \in invClean),
                      !.getFailed = failed,
                      !.ops = IF byp THEN 0 ELSE 1]]
            /\ userProjectsCache' = IF ~byp /\ cacheKind = "memory"
                                    THEN MemGetMap(userProjectsCache, u, now)
                                    ELSE userProjectsCache
    /\ UNCHANGED <<container, handlers, life, cacheKind, connected, accessCache, redisStore, now, store,
                   mut, invClean, absentClean>>

\* fetchFromDb(): projectMemberRepo.getUserProjects queries the documents
FallbackList(r) ==
    /\ NoneReturning
    /\ req[r].op = "list" /\ req[r].pc = "fetch"
    /\ req' = [req EXCEPT ![r].rows = UserRows(store, req[r].userId,
                                               StoreOrder(store)),
                          ![r].pc = "resume"]
    /\ UNCHANGED <<container, handlers, life, cacheKind, connected, accessCache, userProjectsCache,
                   redisStore, now, store, mut, invClean,
                   absentClean>>

\* A helper that stores the list with the access records' TTL
UserProjectsTtlOfAccess == TtlProjectAccess

\* setUserProjects(userId, cacheData, cacheConfig.ttl.userProjects)
UserProjectsTtl == TtlUserProjects

\* Map the rows, wrap them with cachedAt, store the wrapper, return the list
ResumeList(r, failed) ==
    /\ NoneReturning
    /\ req[r].op = "list" /\ req[r].pc = "resume"
    /\ LET u == req[r].userId
            projects == RowsToAccess(u, req[r].rows, now)
            cacheData == UserProjectsRecord(u, projects, now)
            doSet == ~req[r].bypass
            written == doSet /\ SetAccepted(cacheKind, connected, failed)
            thrown == doSet /\ failed /\ RedisErrorEscapes(failed)
        IN  /\ CanFail(cacheKind, connected, failed)
            /\ failed => doSet
            /\ userProjectsCache' =
                 IF written /\ cacheKind = "memory"
                 THEN MemSetMap(userProjectsCache, u, cacheData,
                                UserProjectsTtl, now)
                 ELSE userProjectsCache
            /\ redisStore' =
                 IF written /\ cacheKind = "redis"
                 THEN RedisSetEx(redisStore, GetKey("user-projects", <<u>>),
                                 UserProjectsTtl,
                                 StringifyUserProjects(cacheData), now)
                 ELSE redisStore
            /\ invClean' = IF written THEN invClean \ {LKey(u)} ELSE invClean
            /\ req' = [req EXCEPT
                         ![r].pc = "done",
                         ![r].fbList = projects,
                         ![r].resultList = IF thrown THEN <<>> ELSE projects,
                         ![r].err = thrown,
                         ![r].ops = IF doSet THEN @ + 1 ELSE @,
                         ![r].setOk = written,
                         ![r].setFailed = failed,
                         ![r].postSet = ListEntryOf(cacheKind, userProjectsCache',
                                                    redisStore', u)]
    /\ UNCHANGED <<container, handlers, life, cacheKind, connected, accessCache, now, store, mut,
                   absentClean>>

\* The caller takes the returned value and the slot is free for the next
\* call.  A finished call is handed to its caller before anything else runs:
\* returning changes nothing but the call's own record.
Finish(r) ==
    /\ req[r].pc = "done"
    /\ req' = [req EXCEPT ![r] = IdleReq]
    /\ UNCHANGED <<container, handlers, life, cacheKind, connected, accessCache, userProjectsCache,
                   redisStore, now, store, mut, invClean, absentClean>>

\* ------------------------------------------------------------------------
\* Invalidation
\* ------------------------------------------------------------------------
\* An invalidateProjectAccess that leaves the access record in place
MemInvalidateAccessKept(map, u, p) == map

\* MemoryCache.invalidateProjectAccess: accessCache.delete(key) ...
MemInvalidateAccess(map, u, p) == MapDelete(map, MemKey(u, p))

\* An invalidateProjectAccess that clears every user's project list
MemInvalidateAccessListAll(map, u) == EmptyMap

\* An invalidateProjectAccess that leaves the user's project list in place
MemInvalidateAccessListKept(map, u) == map

\* ... and userProjectsCache.delete(userId)
MemInvalidateAccessList(map, u) == MapDelete(map, u)

\* MemoryCache.invalidateUserProjects
MemInvalidateUserProjects(map, u) == MapDelete(map, u)

\* RedisCache.invalidateProjectAccess: Promise.all of two DEL commands, each
\* of which may be rejected by the client
RedisInvalidateAccess(rstore, u, p, failed1, failed2) ==
    LET s1 == IF failed1 THEN rstore
              ELSE MapDelete(rstore, GetKey("access", <<u, p>>))
    IN  IF failed2 THEN s1 ELSE MapDelete(s1, GetKey("user-projects", <<u>>))

\* RedisCache.invalidateUserProjects
RedisInvalidateUserProjects(rstore, u, failed) ==
    IF failed THEN rstore ELSE MapDelete(rstore, GetKey("user-projects", <<u>>))

\* ------------------------------------------------------------------------
\* Membership mutation routes (handler bodies, after requireProjectAccess)
\* ------------------------------------------------------------------------
Owners(st, p) == {x \in Users : st[<<x, p>>] = "owner"}

\* The status the repository call of the handler ends in: 0 when the store
\* is written.  One mutation is in flight at a time, so the handler's reads
\* and its write see the same documents.
MutCheck(st, op, u, p) ==
    CASE op = "add" -> IF st[<<u, p>>] # NoMember THEN 500 ELSE 0
      [] op = "patch" -> IF st[<<u, p>>] = NoMember THEN 500 ELSE 0
      [] op = "remove" -> IF Owners(st, p) = {u} THEN 400
                          ELSE IF st[<<u, p>>] = NoMember THEN 500 ELSE 0

MutStatus(op) ==
    CASE op = "add" -> 201 [] op = "patch" -> 200 [] op = "remove" -> 204

\* A handler that answers right after the write
AfterWriteRespond(op) == "respond"

\* What follows the repository call in the handler's try block:
\* await invalidateProjectAccessCache(userId, projectId)
AfterWrite(op) == "invAccess"

\* POST addMember / PATCH updateMemberRole / DELETE removeMember
MutWrite(op, u, p, role) ==
    /\ NoneReturning
    /\ mut.pc = "idle"
    /\ LET failure == MutCheck(store, op, u, p)
       IN  IF failure # 0
           THEN /\ mut' = [IdleMut EXCEPT !.pc = "respond", !.userId = u,
                                           !.projectId = p,
                                           !.status = failure]
                /\ UNCHANGED <<store, req>>
           ELSE /\ store' = [store EXCEPT ![<<u, p>>] =
                                IF op = "remove" THEN NoMember ELSE role]
                /\ mut' = [IdleMut EXCEPT !.pc = AfterWrite(op), !.userId = u,
                                           !.projectId = p,
                                           !.status = MutStatus(op)]
                /\ req' = [r \in ReqIds |-> [req[r] EXCEPT !.fresh = FALSE]]
    /\ UNCHANGED <<container, handlers, life, cacheKind, connected, accessCache, userProjectsCache,
                   redisStore, now, invClean, absentClean>>

\* await invalidateProjectAccessCache(userId, projectId)
MutInvAccess(failed1, failed2) ==
    /\ NoneReturning
    /\ mut.pc = "invAccess"
    /\ LET u == mut.userId
            p == mut.projectId
            used == ~Bypass(cacheKind, connected)
        IN  /\ CanFail(cacheKind, connected, failed1)
            /\ CanFail(cacheKind, connected, failed2)
            /\ accessCache' = IF used /\ cacheKind = "memory"
                              THEN MemInvalidateAccess(accessCache, u, p)
                              ELSE accessCache
            /\ userProjectsCache' = IF used /\ cacheKind = "memory"
                                    THEN MemInvalidateAccessList(userProjectsCache, u)
                                    ELSE userProjectsCache
            /\ redisStore' = IF used /\ cacheKind = "redis"
                             THEN RedisInvalidateAccess(redisStore, u, p,
                                                        failed1, failed2)
                             ELSE redisStore
            /\ invClean' = invClean
                             \cup (IF used /\ ~failed1 THEN {AKey(u, p)} ELSE {})
                             \cup (IF used /\ ~failed2 THEN {LKey(u)} ELSE {})
    /\ mut' = [mut EXCEPT !.pc = "invList",
                          !.calls = Append(@, "access"),
                          !.failed = @ \/ failed1 \/ failed2,
                          !.raised = @ \/ InvalidateErrorEscapes(failed1 \/ failed2)]
    /\ UNCHANGED <<container, handlers, life, cacheKind, connected, now, store, req, absentClean>>

\* await invalidateUserProjectsCache(userId)
MutInvList(failed) ==
    /\ NoneReturning
    /\ mut.pc = "invList"
    /\ LET u == mut.userId
            used == ~Bypass(cacheKind, connected)
        IN  /\ CanFail(cacheKind, connected, failed)
            /\ userProjectsCache' = IF used /\ cacheKind = "memory"
                                    THEN MemInvalidateUserProjects(userProjectsCache, u)
                                    ELSE userProjectsCache
            /\ redisStore' = IF used /\ cacheKind = "redis"
                             THEN RedisInvalidateUserProjects(redisStore, u, failed)
                             ELSE redisStore
    /\ mut' = [mut EXCEPT !.pc = "respond",
                          !.calls = Append(@, "list"),
                          !.failed = @ \/ failed,
                          !.raised = @ \/ InvalidateErrorEscapes(failed)]
    /\ UNCHANGED <<container, handlers, life, cacheKind, connected, accessCache, now, store, req,
                   invClean, absentClean>>

\* res.status(...).json(...): the response leaves
MutRespond ==
    /\ NoneReturning
    /\ mut.pc = "respond"
    /\ mut' = IdleMut
    /\ UNCHANGED <<container, handlers, life, cacheKind, connected, accessCache, userProjectsCache,
                   redisStore, now, store, req, invClean,
                   absentClean>>

\* ------------------------------------------------------------------------
\* Environment: the clock, the sweep timer, the Redis client's events
\* ------------------------------------------------------------------------
Tick ==
    /\ NoneReturning
    /\ now < MaxTicks * MsPerSec
    /\ now' = now + MsPerSec
    /\ redisStore' = RedisExpire(redisStore, now')
    /\ UNCHANGED <<container, handlers, life, cacheKind, connected, accessCache, userProjectsCache,
                   store, req, mut, invClean, absentClean>>

\* setInterval(() => this.cleanup(), 5 * 60 * 1000)
Cleanup ==
    /\ NoneReturning
    /\ cacheKind = "memory"
    /\ accessCache' = MemCleanupMap(accessCache, now)
    /\ userProjectsCache' = MemCleanupMap(userProjectsCache, now)
    /\ UNCHANGED <<container, handlers, life, cacheKind, connected, redisStore, now, store, req, mut,
                   invClean, absentClean>>

\* The handlers registered in connect() stay on every client that was not
\* quit, the current one and those a later connect() replaced.
ClientAlive(l) == l.client = "open" \/ l.leaked > 0

\* client.on('error') / client.on('disconnect'): this.connected = false
ConnLost ==
    /\ NoneReturning
    /\ cacheKind = "redis" /\ connected
    /\ ClientAlive(life)
    /\ connected' = FALSE
    /\ UNCHANGED <<container, handlers, life, cacheKind, accessCache, userProjectsCache, redisStore, now,
                   store, req, mut, invClean, absentClean>>

\* client.on('connect'): this.connected = true
ConnRecovered ==
    /\ NoneReturning
    /\ cacheKind = "redis" /\ ~connected
    /\ ClientAlive(life)
    /\ connected' = TRUE
    /\ UNCHANGED <<container, handlers, life, cacheKind, accessCache, userProjectsCache, redisStore, now,
                   store, req, mut, invClean, absentClean>>

\* A command sent to the Redis client is answered or rejected
Outcomes == BOOLEAN

Next ==
    \/ \E r \in ReqIds, u \in Subjects, p \in Projects, failed \in Outcomes :
          StartAccess(r, u, p, failed)
    \/ \E r \in ReqIds : FallbackAccess(r)
    \/ \E r \in ReqIds, failed \in Outcomes : ResumeAccess(r, failed)
    \/ \E r \in ReqIds, u \in Subjects, failed \in Outcomes :
          StartList(r, u, failed)
    \/ \E r \in ReqIds : FallbackList(r)
    \/ \E r \in ReqIds, failed \in Outcomes : ResumeList(r, failed)
    \/ \E r \in ReqIds : Proceed(r)
    \/ \E r \in ReqIds : Finish(r)
    \/ \E op \in {"add", "patch", "remove"}, u \in Subjects, p \in Projects,
          role \in Roles : MutWrite(op, u, p, role)
    \/ \E failed1, failed2 \in Outcomes : MutInvAccess(failed1, failed2)
    \/ \E failed \in Outcomes : MutInvList(failed)
    \/ MutRespond
    \/ Cleanup
    \/ ConnLost
    \/ ConnRecovered

\* Every backend, one cache-aside call next to the mutation, the clock at
\* rest: nothing expires.
Spec == Init /\ [][Next]_vars

\* The in-process backend with the clock running
InitMemory == Init /\ cacheKind = "memory"

NextTimed ==
    \/ \E r \in ReqIds, u \in Subjects, p \in Projects :
          StartAccess(r, u, p, FALSE)
    \/ \E r \in ReqIds : FallbackAccess(r)
    \/ \E r \in ReqIds : ResumeAccess(r, FALSE)
    \/ \E r \in ReqIds, u \in Subjects : StartList(r, u, FALSE)
    \/ \E r \in ReqIds : FallbackList(r)
    \/ \E r \in ReqIds : ResumeList(r, FALSE)
    \/ \E r \in ReqIds : Proceed(r)
    \/ \E r \in ReqIds : Finish(r)
    \/ \E op \in {"add", "patch", "remove"}, u \in Subjects, p \in Projects,
          role \in Roles : MutWrite(op, u, p, role)
    \/ MutInvAccess(FALSE, FALSE)
    \/ MutInvList(FALSE)
    \/ MutRespond
    \/ Tick
    \/ Cleanup

SpecTimed == InitMemory /\ [][NextTimed]_vars

\* The networked backend whose connection comes and goes: every command that
\* is sent succeeds, and a membership mutation starts only while no
\* cache-aside call is in flight.
InitRedis == Init /\ cacheKind = "redis"

NoCallInFlight == \A r \in ReqIds : req[r].op = "idle"

MutWriteQuiet(op, u, p, role) == NoCallInFlight /\ MutWrite(op, u, p, role)

NextOutage ==
    \/ \E r \in ReqIds, u \in Subjects, p \in Projects :
          StartAccess(r, u, p, FALSE)
    \/ \E r \in ReqIds : FallbackAccess(r)
    \/ \E r \in ReqIds : ResumeAccess(r, FALSE)
    \/ \E r \in ReqIds : Proceed(r)
    \/ \E r \in ReqIds : Finish(r)
    \/ \E op \in {"add", "patch", "remove"}, u \in Subjects, p \in Projects,
          role \in Roles : MutWriteQuiet(op, u, p, role)
    \/ MutInvAccess(FALSE, FALSE)
    \/ MutInvList(FALSE)
    \/ MutRespond
    \/ ConnLost
    \/ ConnRecovered

SpecOutage == InitRedis /\ [][NextOutage]_vars


\* ------------------------------------------------------------------------
\* A failing fallback
\* ------------------------------------------------------------------------
\* What container.items.query(...).fetchAll() can reject with
FetchErrors == {"QueryFailed", "RequestTimeout"}

\* A helper that catches the fallback's rejection
HelperRaisesNothing(fbError) == "none"

\* const access = await fetchFromDb(): no try/catch around the await, the
\* rejection is the helper's own
HelperRaises(fbError) == fbError

\* The query of the fallback rejects with e; the helper's frame is left at
\* the await, before the set.
FallbackAccessFails(r, e) ==
    /\ NoneReturning
    /\ req[r].op = "access" /\ req[r].pc = "fetch"
    /\ UNCHANGED <<container, handlers, life, cacheKind, connected, accessCache, userProjectsCache,
                   redisStore, now, store, mut, invClean, absentClean>>
    /\ req' = [req EXCEPT
                 ![r].pc = "done",
                 ![r].fbError = e,
                 ![r].raised = HelperRaises(e),
                 ![r].err = (HelperRaises(e) # "none"),
                 ![r].gotEntry = AccessEntryOf(cacheKind, accessCache,
                                               redisStore, req[r].userId,
                                               req[r].projectId),
                 ![r].postSet = AccessEntryOf(cacheKind, accessCache',
                                              redisStore', req[r].userId,
                                              req[r].projectId)]

FallbackListFails(r, e) ==
    /\ NoneReturning
    /\ req[r].op = "list" /\ req[r].pc = "fetch"
    /\ UNCHANGED <<container, handlers, life, cacheKind, connected, accessCache, userProjectsCache,
                   redisStore, now, store, mut, invClean, absentClean>>
    /\ req' = [req EXCEPT
                 ![r].pc = "done",
                 ![r].fbError = e,
                 ![r].raised = HelperRaises(e),
                 ![r].err = (HelperRaises(e) # "none"),
                 ![r].gotEntry = ListEntryOf(cacheKind, userProjectsCache,
                                             redisStore, req[r].userId),
                 ![r].postSet = ListEntryOf(cacheKind, userProjectsCache',
                                            redisStore', req[r].userId)]

\* The cache-aside calls with a store whose queries can fail, every backend,
\* the connection coming and going.
NextFallback ==
    \/ \E r \in ReqIds, u \in Subjects, p \in Projects, failed \in Outcomes :
          StartAccess(r, u, p, failed)
    \/ \E r \in ReqIds : FallbackAccess(r)
    \/ \E r \in ReqIds, e \in FetchErrors : FallbackAccessFails(r, e)
    \/ \E r \in ReqIds, failed \in Outcomes : ResumeAccess(r, failed)
    \/ \E r \in ReqIds, u \in Subjects, failed \in Outcomes :
          StartList(r, u, failed)
    \/ \E r \in ReqIds : FallbackList(r)
    \/ \E r \in ReqIds, e \in FetchErrors : FallbackListFails(r, e)
    \/ \E r \in ReqIds, failed \in Outcomes : ResumeList(r, failed)
    \/ \E r \in ReqIds : Proceed(r)
    \/ \E r \in ReqIds : Finish(r)
    \/ ConnLost
    \/ ConnRecovered

SpecFallback == Init /\ [][NextFallback]_vars


\* ------------------------------------------------------------------------
\* POST /api/projects and GET /api/projects
\* ------------------------------------------------------------------------
\* projectRepo.getProjectsByClientAndSlug finds the project.  The handler
\* writes the project document and its owner's member document together and
\* no member is removed here, so the project exists when it has a member.
ProjectExists(st, p) == \E x \in Users : st[<<x, p>>] # NoMember

\* No project has been created yet
InitCreate ==
    /\ cacheKind \in CacheKinds
    /\ life = StartedLife(cacheKind)
    /\ connected = (cacheKind = "redis")
    /\ accessCache = EmptyMap
    /\ userProjectsCache = EmptyMap
    /\ redisStore = EmptyMap
    /\ now = 0
    /\ store = [k \in Users \X Projects |-> NoMember]
    /\ req = [r \in CallIds |-> IdleReq]
    /\ mut = IdleMut
    /\ invClean = {}
    /\ absentClean = {}
    /\ container = EmptyContainer
    /\ handlers = NoHandlers

\* POST /api/projects by user u: 409 when the project exists; else
\* projectRepo.create, memberRepo.create({ userId, role: 'owner' }) and the
\* 201 response.  No invalidation helper is called on the way.
CreateProject(u, p) ==
    /\ NoneReturning
    /\ NoCallInFlight
    /\ mut.pc = "idle"
    /\ IF ProjectExists(store, p)
       THEN /\ mut' = [IdleMut EXCEPT !.pc = "respond", !.userId = u,
                                       !.projectId = p, !.status = 409]
            /\ UNCHANGED store
       ELSE /\ store' = [store EXCEPT ![<<u, p>>] = "owner"]
            /\ mut' = [IdleMut EXCEPT !.pc = "respond", !.userId = u,
                                       !.projectId = p, !.status = 201]
    /\ UNCHANGED <<container, handlers, life, cacheKind, connected, accessCache, userProjectsCache,
                   redisStore, now, req, invClean, absentClean>>

\* Project creation next to the list and access calls of the users; a
\* creation starts only while no cache-aside call is in flight, and every
\* command sent to Redis succeeds.
NextCreate ==
    \/ \E r \in ReqIds, u \in Users : StartList(r, u, FALSE)
    \/ \E r \in ReqIds : FallbackList(r)
    \/ \E r \in ReqIds : ResumeList(r, FALSE)
    \/ \E r \in ReqIds, u \in Users, p \in Projects :
          StartAccess(r, u, p, FALSE)
    \/ \E r \in ReqIds : FallbackAccess(r)
    \/ \E r \in ReqIds : ResumeAccess(r, FALSE)
    \/ \E r \in ReqIds : Proceed(r)
    \/ \E r \in ReqIds : Finish(r)
    \/ \E u \in Users, p \in Projects : CreateProject(u, p)
    \/ MutRespond

SpecCreate == InitCreate /\ [][NextCreate]_vars


\* ------------------------------------------------------------------------
\* invalidateProjectCache(projectId)
\* ------------------------------------------------------------------------
StartsWith(seq, prefix) ==
    Len(seq) >= Len(prefix) /\ SubSeq(seq, 1, Len(prefix)) = prefix

\* key.endsWith(`:${projectId}`)
EndsWith(seq, suffix) ==
    Len(seq) >= Len(suffix)
      /\ SubSeq(seq, Len(seq) - Len(suffix) + 1, Len(seq)) = suffix

\* MemoryCache.invalidateProjectCache: the loop over accessCache.keys()
MemInvalidateProjectAccess(map, p) ==
    [k \in {x \in DOMAIN map : ~EndsWith(x, <<":">> \o p)} |-> map[k]]

\* ... and what it does to userProjectsCache: nothing
MemInvalidateProjectLists(map, p) == map

\* scanIterator({ MATCH: getKey('access', '*', projectId) }): '*' matches
\* any run of characters
ScanAccessKeys(rstore, p) ==
    {k \in DOMAIN rstore :
        /\ StartsWith(k, <<"access", ":">>)
        /\ EndsWith(k, <<":">> \o p)
        /\ Len(k) >= Len(<<"access", ":">>) + Len(<<":">> \o p)}

\* scanIterator({ MATCH: getKey('user-projects', '*') })
ScanUserProjectKeys(rstore) ==
    {k \in DOMAIN rstore : StartsWith(k, <<"user-projects", ":">>)}

\* RedisCache.invalidateProjectCache: scan and del of the access keys, then
\* scan and del of the list keys, in one try block; failedAt is the part
\* whose client call rejects (0: none), which ends the block.
RedisInvalidateProject(rstore, p, failedAt) ==
    LET afterAccess ==
          IF failedAt = 1 THEN rstore
          ELSE [k \in DOMAIN rstore \ ScanAccessKeys(rstore, p) |-> rstore[k]]
    IN  IF failedAt # 0 THEN afterAccess
        ELSE [k \in DOMAIN afterAccess \ ScanUserProjectKeys(afterAccess)
                |-> afterAccess[k]]

\* The parts of the bulk invalidation a client call can reject in
BulkFailures == {0, 1, 2}

\* await invalidateProjectCache(projectId), called on its own
InvalidateProjectCache(p, failedAt) ==
    /\ NoneReturning
    /\ mut.pc = "idle"
    /\ LET used == ~Bypass(cacheKind, connected)
       IN  /\ failedAt # 0 => (used /\ cacheKind = "redis")
           /\ accessCache' = IF used /\ cacheKind = "memory"
                             THEN MemInvalidateProjectAccess(accessCache, p)
                             ELSE accessCache
           /\ userProjectsCache' =
                IF used /\ cacheKind = "memory"
                THEN MemInvalidateProjectLists(userProjectsCache, p)
                ELSE userProjectsCache
           /\ redisStore' = IF used /\ cacheKind = "redis"
                            THEN RedisInvalidateProject(redisStore, p, failedAt)
                            ELSE redisStore
           /\ mut' = [IdleMut EXCEPT
                        !.pc = "returned", !.projectId = p,
                        !.status = failedAt,
                        !.calls = IF used THEN <<"project">> ELSE <<>>,
                        !.failed = (failedAt # 0),
                        !.raised = InvalidateErrorEscapes(failedAt # 0)]
    /\ UNCHANGED <<container, handlers, life, cacheKind, connected, now, store, req, invClean,
                   absentClean>>

HelperReturned ==
    /\ mut.pc = "returned"
    /\ mut' = IdleMut
    /\ UNCHANGED <<container, handlers, life, cacheKind, connected, accessCache, userProjectsCache,
                   redisStore, now, store, req, invClean, absentClean>>

\* The cache-aside calls of all users next to bulk invalidations
NextBulk ==
    \/ \E r \in ReqIds, u \in Users, p \in Projects, failed \in Outcomes :
          StartAccess(r, u, p, failed)
    \/ \E r \in ReqIds : FallbackAccess(r)
    \/ \E r \in ReqIds, failed \in Outcomes : ResumeAccess(r, failed)
    \/ \E r \in ReqIds, u \in Users, failed \in Outcomes :
          StartList(r, u, failed)
    \/ \E r \in ReqIds : FallbackList(r)
    \/ \E r \in ReqIds, failed \in Outcomes : ResumeList(r, failed)
    \/ \E r \in ReqIds : Proceed(r)
    \/ \E r \in ReqIds : Finish(r)
    \/ \E p \in Projects, failedAt \in BulkFailures :
          InvalidateProjectCache(p, failedAt)
    \/ HelperReturned
    \/ ConnLost
    \/ ConnRecovered

SpecBulk == Init /\ [][NextBulk]_vars

\* ------------------------------------------------------------------------
\* Startup and life cycle: any configuration, createCache, then connect()
\* and disconnect() on the returned backend between cache-aside calls
\* ------------------------------------------------------------------------
InitLife ==
    /\ cacheKind = "unset"
    /\ life \in {NewLife(c) : c \in Configs}
    /\ connected = FALSE
    /\ accessCache = EmptyMap
    /\ userProjectsCache = EmptyMap
    /\ redisStore = EmptyMap
    /\ now = 0
    /\ store = [k \in Users \X Projects |->
                   IF k[1] \in Subjects THEN "viewer" ELSE "owner"]
    /\ req = [r \in CallIds |-> IdleReq]
    /\ mut = IdleMut
    /\ invClean = {}
    /\ absentClean = {}
    /\ container = EmptyContainer
    /\ handlers = NoHandlers

\* Whether connect() of the backend can reject: only RedisCache's does
CanThrow(kind) == kind = "redis"

\* startServer: cache = await CacheFactory.createCache();
\* setCacheInstance(cache).  ok: the selected backend's connect() resolves.
CreateCache(ok) ==
    /\ life.phase = "unstarted"
    /\ NoCallInFlight
    /\ ~ok => /\ ValidateConfig(life.config).enabled
              /\ CanThrow(SelectVariant(ValidateConfig(life.config)))
    /\ life' = CreatedLife(life, ok)
    /\ cacheKind' = CreatedKind(life, ok)
    /\ connected' = (cacheKind' = "redis")
    /\ UNCHANGED <<container, handlers, accessCache, userProjectsCache, redisStore, now, store,
                   req, mut, invClean, absentClean>>

\* cache.connect() on the running backend
Connect(ok) ==
    /\ life.phase = "running"
    /\ life.connects < MaxConnects
    /\ ~ok => CanThrow(cacheKind)
    /\ life' = ConnectLife(cacheKind, life, ok)
    /\ connected' = IF cacheKind = "redis" THEN ok ELSE connected
    /\ UNCHANGED <<container, handlers, cacheKind, accessCache, userProjectsCache, redisStore,
                   now, store, req, mut, invClean, absentClean>>

\* cache.disconnect() on the running backend; quit() can reject only on a
\* client that is not open
Disconnect(quitOk) ==
    /\ life.phase = "running"
    /\ ~quitOk => cacheKind = "redis" /\ life.client = "closed"
    /\ life' = DisconnectLife(cacheKind, life, quitOk)
    /\ connected' = IF cacheKind = "redis" /\ life.client # "none" /\ quitOk
                    THEN FALSE ELSE connected
    /\ accessCache' = IF cacheKind = "memory" THEN EmptyMap ELSE accessCache
    /\ userProjectsCache' = IF cacheKind = "memory" THEN EmptyMap
                            ELSE userProjectsCache
    /\ UNCHANGED <<container, handlers, cacheKind, redisStore, now, store, req, mut, invClean,
                   absentClean>>

NextLife ==
    \/ \E ok \in BOOLEAN : CreateCache(ok)
    \/ \E ok \in BOOLEAN : Connect(ok)
    \/ \E quitOk \in BOOLEAN : Disconnect(quitOk)
    \/ \E r \in ReqIds, u \in Subjects, p \in Projects, failed \in Outcomes :
          StartAccess(r, u, p, failed)
    \/ \E r \in ReqIds : FallbackAccess(r)
    \/ \E r \in ReqIds, failed \in Outcomes : ResumeAccess(r, failed)
    \/ \E r \in ReqIds, u \in Subjects, failed \in Outcomes :
          StartList(r, u, failed)
    \/ \E r \in ReqIds : FallbackList(r)
    \/ \E r \in ReqIds, failed \in Outcomes : ResumeList(r, failed)
    \/ \E r \in ReqIds : Proceed(r)
    \/ \E r \in ReqIds : Finish(r)

SpecLife == InitLife /\ [][NextLife]_vars

\* ------------------------------------------------------------------------
\* The networked backend with failing client calls: cache-aside calls,
\* member mutations and bulk project invalidations
\* ------------------------------------------------------------------------
NextFailSoft ==
    \/ \E r \in ReqIds, u \in Subjects, p \in Projects, failed \in Outcomes :
          StartAccess(r, u, p, failed)
    \/ \E r \in ReqIds : FallbackAccess(r)
    \/ \E r \in ReqIds, failed \in Outcomes : ResumeAccess(r, failed)
    \/ \E r \in ReqIds, u \in Subjects, failed \in Outcomes :
          StartList(r, u, failed)
    \/ \E r \in ReqIds : FallbackList(r)
    \/ \E r \in ReqIds, failed \in Outcomes : ResumeList(r, failed)
    \/ \E r \in ReqIds : Proceed(r)
    \/ \E r \in ReqIds : Finish(r)
    \/ \E op \in {"add", "patch", "remove"}, u \in Subjects, p \in Projects,
          role \in Roles : MutWrite(op, u, p, role)
    \/ \E failed1, failed2 \in Outcomes : MutInvAccess(failed1, failed2)
    \/ \E failed \in Outcomes : MutInvList(failed)
    \/ MutRespond
    \/ \E p \in Projects, failedAt \in BulkFailures :
          InvalidateProjectCache(p, failedAt)
    \/ HelperReturned
    \/ ConnLost
    \/ ConnRecovered

SpecFailSoft == InitRedis /\ [][NextFailSoft]_vars

\* ------------------------------------------------------------------------
\* Two getCachedProjectAccess calls in flight at once next to the mutation,
\* on a backend that stores, the clock running
\* ------------------------------------------------------------------------
RaceIds == {1, 2}

InitRace ==
    /\ cacheKind \in {"memory", "redis"}
    /\ life = StartedLife(cacheKind)
    /\ connected = (cacheKind = "redis")
    /\ accessCache = EmptyMap
    /\ userProjectsCache = EmptyMap
    /\ redisStore = EmptyMap
    /\ now = 0
    /\ store = [k \in Users \X Projects |->
                   IF k[1] \in Subjects THEN "viewer" ELSE "owner"]
    /\ req = [r \in RaceIds |-> IdleReq]
    /\ mut = IdleMut
    /\ invClean = {}
    /\ absentClean = {}
    /\ container = EmptyContainer
    /\ handlers = NoHandlers

NextRace ==
    \/ \E r \in ReqIds, u \in Subjects, p \in Projects :
          StartAccess(r, u, p, FALSE)
    \/ \E r \in ReqIds : FallbackAccess(r)
    \/ \E r \in ReqIds : ResumeAccess(r, FALSE)
    \/ \E r \in ReqIds : Proceed(r)
    \/ \E r \in ReqIds : Finish(r)
    \/ \E op \in {"add", "patch", "remove"}, u \in Subjects, p \in Projects,
          role \in Roles : MutWrite(op, u, p, role)
    \/ MutInvAccess(FALSE, FALSE)
    \/ MutInvList(FALSE)
    \/ MutRespond
    \/ Tick

SpecRace == InitRace /\ [][NextRace]_vars

\* ------------------------------------------------------------------------
\* A backend instance as its constructor leaves it, connect() not yet
\* called: the instance createCache has just built for the configuration
\* ------------------------------------------------------------------------
ConstructedLife(c) ==
    [NewLife(c) EXCEPT
       !.phase = "running",
       !.auth = IF SelectVariant(ValidateConfig(c)) = "redis"
                THEN AuthType(c) ELSE "none"]

InitFresh ==
    /\ life \in {ConstructedLife(c) : c \in Configs}
    /\ cacheKind = SelectVariant(ValidateConfig(life.config))
    /\ connected = FALSE
    /\ accessCache = EmptyMap
    /\ userProjectsCache = EmptyMap
    /\ redisStore = EmptyMap
    /\ now = 0
    /\ store = [k \in Users \X Projects |->
                   IF k[1] \in Subjects THEN "viewer" ELSE "owner"]
    /\ req = [r \in CallIds |-> IdleReq]
    /\ mut = IdleMut
    /\ invClean = {}
    /\ absentClean = {}
    /\ container = EmptyContainer
    /\ handlers = NoHandlers

NextFresh ==
    \/ \E ok \in BOOLEAN : Connect(ok)
    \/ \E quitOk \in BOOLEAN : Disconnect(quitOk)
    \/ \E r \in ReqIds, u \in Subjects, p \in Projects :
          StartAccess(r, u, p, FALSE)
    \/ \E r \in ReqIds : FallbackAccess(r)
    \/ \E r \in ReqIds : ResumeAccess(r, FALSE)
    \/ \E r \in ReqIds : Proceed(r)
    \/ \E r \in ReqIds : Finish(r)

SpecFresh == InitFresh /\ [][NextFresh]_vars

\* ------------------------------------------------------------------------
\* Identifiers as arbitrary strings: getCachedProjectAccess for two distinct
\* (userId, projectId) pairs whose identifiers may contain the separator
\* ------------------------------------------------------------------------
MaxIdLen == 2        \* characters in an identifier

\* userId: string, projectId: string
IdChars == {"a", ":"}
IdStrings == UNION {[1..n -> IdChars] : n \in 1..MaxIdLen}

InitKeys ==
    /\ cacheKind \in {"memory", "redis"}
    /\ life = StartedLife(cacheKind)
    /\ connected = (cacheKind = "redis")
    /\ accessCache = EmptyMap
    /\ userProjectsCache = EmptyMap
    /\ redisStore = EmptyMap
    /\ now = 0
    /\ \E first, second \in IdStrings \X IdStrings :
         /\ first # second
         /\ store = [k \in {first, second} |->
                        IF k = first THEN "owner" ELSE "viewer"]
    /\ req = [r \in CallIds |-> IdleReq]
    /\ mut = IdleMut
    /\ invClean = {}
    /\ absentClean = {}
    /\ container = EmptyContainer
    /\ handlers = NoHandlers

NextKeys ==
    \/ \E r \in ReqIds, k \in DOMAIN store : StartAccess(r, k[1], k[2], FALSE)
    \/ \E r \in ReqIds : FallbackAccess(r)
    \/ \E r \in ReqIds : ResumeAccess(r, FALSE)
    \/ \E r \in ReqIds : Proceed(r)
    \/ \E r \in ReqIds : Finish(r)

SpecKeys == InitKeys /\ [][NextKeys]_vars

\* ------------------------------------------------------------------------
\* Two users and two projects: every user's calls for every project next to
\* role changes with their invalidations
\* ------------------------------------------------------------------------
InitFrame ==
    /\ cacheKind \in {"memory", "redis"}
    /\ life = StartedLife(cacheKind)
    /\ connected = (cacheKind = "redis")
    /\ accessCache = EmptyMap
    /\ userProjectsCache = EmptyMap
    /\ redisStore = EmptyMap
    /\ now = 0
    /\ store = [k \in Users \X AllProjects |->
                   IF k[1] \in Subjects THEN "viewer" ELSE "owner"]
    /\ req = [r \in CallIds |-> IdleReq]
    /\ mut = IdleMut
    /\ invClean = {}
    /\ absentClean = {}
    /\ container = EmptyContainer
    /\ handlers = NoHandlers

NextFrame ==
    \/ \E r \in ReqIds, k \in DOMAIN store : StartAccess(r, k[1], k[2], FALSE)
    \/ \E r \in ReqIds : FallbackAccess(r)
    \/ \E r \in ReqIds : ResumeAccess(r, FALSE)
    \/ \E r \in ReqIds, u \in Users : StartList(r, u, FALSE)
    \/ \E r \in ReqIds : FallbackList(r)
    \/ \E r \in ReqIds : ResumeList(r, FALSE)
    \/ \E r \in ReqIds : Proceed(r)
    \/ \E r \in ReqIds : Finish(r)
    \/ \E u \in Subjects, p \in AllProjects :
          MutWrite("patch", u, p, "editor")
    \/ MutInvAccess(FALSE, FALSE)
    \/ MutInvList(FALSE)
    \/ MutRespond

SpecFrame == InitFrame /\ [][NextFrame]_vars

\* ------------------------------------------------------------------------
\* The networked backend with its connection events and with connect() and
\* disconnect() called on it, next to access checks and the mutation
\* ------------------------------------------------------------------------
NextConn ==
    \/ \E ok \in BOOLEAN : Connect(ok)
    \/ \E quitOk \in BOOLEAN : Disconnect(quitOk)
    \/ ConnLost
    \/ ConnRecovered
    \/ \E r \in ReqIds, u \in Subjects, p \in Projects :
          StartAccess(r, u, p, FALSE)
    \/ \E r \in ReqIds : FallbackAccess(r)
    \/ \E r \in ReqIds : ResumeAccess(r, FALSE)
    \/ \E r \in ReqIds : Proceed(r)
    \/ \E r \in ReqIds : Finish(r)
    \/ \E u \in Subjects, p \in Projects : MutWriteQuiet("patch", u, p, "editor")
    \/ MutInvAccess(FALSE, FALSE)
    \/ MutInvList(FALSE)
    \/ MutRespond
    \/ Tick

SpecConn == InitRedis /\ [][NextConn]_vars

\* ------------------------------------------------------------------------
\* The networked backend with Entra ID auth: the refresh interval firing,
\* each refresh succeeding or failing, next to connection events and
\* access checks
\* ------------------------------------------------------------------------
EntraConfig ==
    [enabled |-> TRUE, kind |-> "redis", host |-> TRUE, key |-> FALSE]

InitRefresh ==
    /\ cacheKind = "redis"
    /\ life = CreatedLife(NewLife(EntraConfig), TRUE)
    /\ connected = TRUE
    /\ accessCache = EmptyMap
    /\ userProjectsCache = EmptyMap
    /\ redisStore = EmptyMap
    /\ now = 0
    /\ store = [k \in Users \X Projects |->
                   IF k[1] \in Subjects THEN "viewer" ELSE "owner"]
    /\ req = [r \in CallIds |-> IdleReq]
    /\ mut = IdleMut
    /\ invClean = {}
    /\ absentClean = {}
    /\ container = EmptyContainer
    /\ handlers = NoHandlers

\* A refresh whose failure takes the connection down
AfterRefreshDown(flag, ok) == ok /\ flag

\* refreshEntraToken: try { getEntraToken; AUTH } catch { log }: the flag is
\* not assigned on either path
AfterRefresh(flag, ok) == flag

\* The interval callback of startTokenRefresh: one refresh attempt, the
\* token fetch and the AUTH command succeeding (ok) or one of them failing
RefreshToken(ok) ==
    /\ cacheKind = "redis"
    /\ life.timers # {}
    /\ life.client # "none"
    /\ life' = [life EXCEPT !.lastRefresh = IF ok THEN "ok" ELSE "failed",
                            !.refreshBit = ~@]
    /\ connected' = AfterRefresh(connected, ok)
    /\ UNCHANGED <<container, handlers, cacheKind, accessCache, userProjectsCache, redisStore,
                   now, store, req, mut, invClean, absentClean>>

NextRefresh ==
    \/ \E ok \in BOOLEAN : RefreshToken(ok)
    \/ ConnLost
    \/ ConnRecovered
    \/ \E r \in ReqIds, u \in Subjects, p \in Projects, failed \in Outcomes :
          StartAccess(r, u, p, failed)
    \/ \E r \in ReqIds : FallbackAccess(r)
    \/ \E r \in ReqIds, failed \in Outcomes : ResumeAccess(r, failed)
    \/ \E r \in ReqIds : Proceed(r)
    \/ \E r \in ReqIds : Finish(r)

\* setInterval keeps firing the callback for as long as it is scheduled
SpecRefresh ==
    /\ InitRefresh
    /\ [][NextRefresh]_vars
    /\ WF_vars(\E ok \in BOOLEAN : RefreshToken(ok))

\* ------------------------------------------------------------------------
\* A request to a route registered with ...requireProjectAccess(minRole):
\* verifyJWT, checkProjectAccess and requireRole(minRole) in front of the
\* handler, each either calling next() or answering the request itself
\* ------------------------------------------------------------------------
TokenStates == {"missing", "invalid", "valid"}

\* verifyJWT: 401 unless the bearer token validates (0: next() is called)
VerifyStatus(token) == IF token = "valid" THEN 0 ELSE 401

ResolveOutcomes == {"noparams", "notfound", "error", "found"}

\* checkProjectAccess up to the project lookup
ResolveStatus(o) ==
    CASE o = "noparams" -> 400
      [] o = "notfound" -> 404
      [] o = "error"    -> 500
      [] o = "found"    -> 0

CheckStatusLenient(access, thrown) == IF thrown THEN 500 ELSE 0

\* checkProjectAccess after getCachedProjectAccess settled: the catch block
\* answers 500, a null access 403, anything else goes on
CheckStatus(access, thrown) ==
    IF thrown THEN 500 ELSE IF access = Absent THEN 403 ELSE 0

RoleLevelFlat(role) ==
    CASE role = "owner"  -> 3
      [] role = "editor" -> 1
      [] role = "viewer" -> 1

RoleLevel(role) ==
    CASE role = "owner"  -> 3
      [] role = "editor" -> 2
      [] role = "viewer" -> 1

\* the keys of roleHierarchy: indexing it with any other string gives
\* undefined
HasLevel(role) == role \in {"owner", "editor", "viewer"}

\* requireRole: roleHierarchy[authReq.userRole || 'viewer'] against the
\* required level (an unset or empty role is falsy; undefined < n is false)
RoleStatus(userRole, minRole) ==
    LET held == IF userRole \in {NoMember, ""} THEN "viewer" ELSE userRole
    IN  IF /\ HasLevel(held) /\ HasLevel(minRole)
           /\ RoleLevel(held) < RoleLevel(minRole)
        THEN 403 ELSE 0

GuardVerify(token, u, p, minRole) ==
    /\ NoneReturning
    /\ mut.pc = "idle"
    /\ \A r \in ReqIds : req[r].op = "idle"
    /\ mut' = IF VerifyStatus(token) = 0
              THEN [IdleMut EXCEPT !.pc = "resolve", !.userId = u,
                                   !.projectId = p, !.minRole = minRole,
                                   !.trail = <<"verifyJWT">>]
              ELSE [IdleMut EXCEPT !.pc = "respond",
                                   !.status = VerifyStatus(token),
                                   !.minRole = minRole, !.why = "token"]
    /\ UNCHANGED <<container, handlers, life, cacheKind, connected, accessCache, userProjectsCache,
                   redisStore, now, store, req, invClean, absentClean>>

GuardResolve(o) ==
    /\ NoneReturning
    /\ mut.pc = "resolve"
    /\ mut' = IF ResolveStatus(o) = 0
              THEN [mut EXCEPT !.pc = "checking"]
              ELSE [mut EXCEPT !.pc = "respond", !.status = ResolveStatus(o),
                               !.why = o]
    /\ UNCHANGED <<container, handlers, life, cacheKind, connected, accessCache, userProjectsCache,
                   redisStore, now, store, req, invClean, absentClean>>

\* getCachedProjectAccess(userId, projectId, fallback) of the request
GuardLookup(r, failed) ==
    /\ mut.pc = "checking"
    /\ StartAccess(r, mut.userId, mut.projectId, failed)

\* the awaited call settles: checkProjectAccess answers or calls next()
GuardDecide(r) ==
    /\ mut.pc = "checking"
    /\ req[r].op = "access" /\ req[r].pc = "done"
    /\ LET s == CheckStatus(req[r].result, req[r].err)
           found == IF req[r].fbError # "none" THEN "failed"
                    ELSE IF req[r].err THEN "cacheError"
                    ELSE IF req[r].hit THEN "cached"
                    ELSE IF req[r].member = NoMember THEN "noMember"
                    ELSE "member"
       IN  mut' = IF s = 0
                  THEN [mut EXCEPT !.pc = "role",
                                   !.userRole = IF req[r].result = Absent
                                                THEN NoMember
                                                ELSE req[r].result.role,
                                   !.trail = Append(@, "checkProjectAccess"),
                                   !.lookup = found]
                  ELSE [mut EXCEPT !.pc = "respond", !.status = s,
                                   !.why = "check", !.lookup = found]
    /\ req' = [req EXCEPT ![r] = IdleReq]
    /\ UNCHANGED <<container, handlers, life, cacheKind, connected, accessCache, userProjectsCache,
                   redisStore, now, store, invClean, absentClean>>

GuardRole ==
    /\ NoneReturning
    /\ mut.pc = "role"
    /\ LET s == RoleStatus(mut.userRole, mut.minRole)
       IN  mut' = IF s = 0
                  THEN [mut EXCEPT !.pc = "handler",
                                   !.trail = Append(@, "requireRole")]
                  ELSE [mut EXCEPT !.pc = "respond", !.status = s,
                                   !.why = "role"]
    /\ UNCHANGED <<container, handlers, life, cacheKind, connected, accessCache, userProjectsCache,
                   redisStore, now, store, req, invClean, absentClean>>

\* the route handler runs and answers
GuardHandler ==
    /\ NoneReturning
    /\ mut.pc = "handler"
    /\ mut' = [mut EXCEPT !.pc = "respond", !.status = 200,
                          !.trail = Append(@, "handler"), !.why = "handled"]
    /\ UNCHANGED <<container, handlers, life, cacheKind, connected, accessCache, userProjectsCache,
                   redisStore, now, store, req, invClean, absentClean>>

GuardStore == {NoMember, "viewer", "editor"}

InitGuard ==
    /\ cacheKind \in CacheKinds
    /\ life = StartedLife(cacheKind)
    /\ connected = (cacheKind = "redis")
    /\ accessCache = EmptyMap
    /\ userProjectsCache = EmptyMap
    /\ redisStore = EmptyMap
    /\ now = 0
    /\ \E m \in GuardStore :
          store = [k \in Users \X Projects |->
                      IF k[1] \in Subjects THEN m ELSE "owner"]
    /\ req = [r \in CallIds |-> IdleReq]
    /\ mut = IdleMut
    /\ invClean = {}
    /\ absentClean = {}
    /\ container = EmptyContainer
    /\ handlers = NoHandlers

NextGuard ==
    \/ \E token \in TokenStates, u \in Users, p \in Projects,
          minRole \in Roles : GuardVerify(token, u, p, minRole)
    \/ \E o \in ResolveOutcomes : GuardResolve(o)
    \/ \E r \in ReqIds, failed \in Outcomes : GuardLookup(r, failed)
    \/ \E r \in ReqIds : Proceed(r)
    \/ \E r \in ReqIds : FallbackAccess(r)
    \/ \E r \in ReqIds, e \in FetchErrors : FallbackAccessFails(r, e)
    \/ \E r \in ReqIds, failed \in Outcomes : ResumeAccess(r, failed)
    \/ \E r \in ReqIds : GuardDecide(r)
    \/ GuardRole
    \/ GuardHandler
    \/ MutRespond
    \/ Tick

SpecGuard == InitGuard /\ [][NextGuard]_vars

\* The same chain over member documents whose role is any string
\* (CachedProjectAccess.role: string; access.role as ProjectRole is an
\* unchecked cast)
RoleStrings == Roles \cup {"admin", "Owner", ""}

InitRole ==
    /\ cacheKind \in CacheKinds
    /\ life = StartedLife(cacheKind)
    /\ connected = (cacheKind = "redis")
    /\ accessCache = EmptyMap
    /\ userProjectsCache = EmptyMap
    /\ redisStore = EmptyMap
    /\ now = 0
    /\ \E m \in RoleStrings :
          store = [k \in Users \X Projects |->
                      IF k[1] \in Subjects THEN m ELSE "owner"]
    /\ req = [r \in CallIds |-> IdleReq]
    /\ mut = IdleMut
    /\ invClean = {}
    /\ absentClean = {}
    /\ container = EmptyContainer
    /\ handlers = NoHandlers

SpecRole == InitRole /\ [][NextGuard]_vars

\* ------------------------------------------------------------------------
\* The member routes and the repository underneath, one awaited store
\* operation per step, two requests in flight, next to deleting the
\* project and creating it again under the same client_name and slug
\* ------------------------------------------------------------------------
MaxCreates == 2

MaxStamps == 1

MaxDocs == 3

ProjectIds == AllProjects

MemberDoc(id, pid, u, role) ==
    [id |-> id, projectId |-> pid, userId |-> u, role |-> role]

\* getMember: WHERE userId = @userId AND projectId = @projectId (within
\* the partition)
MemberMatches(c, u, pid) ==
    {d \in c.members : d.userId = u /\ d.projectId = pid}

\* getProjectMembers: WHERE client_name = @clientName AND slug = @slug,
\* every member document of the partition
ProjectMembers(c) == c.members

OwnersOf(ms) == {d \in ms : d.role = "owner"}

\* owners.length === 1 && owners[0].userId === userId
IsLastOwner(ms, u) ==
    /\ Cardinality(OwnersOf(ms)) = 1
    /\ \E d \in OwnersOf(ms) : d.userId = u

\* the users holding an owner document of project pid
OwnersIn(c, pid) ==
    {d.userId : d \in {m \in OwnersOf(c.members) : m.projectId = pid}}

\* the owners of the project that is there
ProjectOwners(c) == OwnersIn(c, c.project)

ValidRole(role) == role \in {"owner", "editor", "viewer"}

\* requireProjectAccess('owner') let the caller through: the project
\* resolves and somebody holds an owner document for it
OwnerAdmitted(c) == c.project # NoProject /\ ProjectOwners(c) # {}

HandlerEnds(h, status) ==
    handlers' = [handlers EXCEPT ![h].pc = "respond", ![h].status = status]

CachesUntouched ==
    UNCHANGED <<life, cacheKind, connected, accessCache, userProjectsCache,
                redisStore, now, store, req, mut, invClean, absentClean>>

\* the route handler starts: body validation of POST and PATCH
MemberStart(h, op, u, role) ==
    /\ handlers[h].op = "idle"
    /\ OwnerAdmitted(container)
    /\ op = "add" => Cardinality(container.members) < MaxDocs
    /\ handlers' = [handlers EXCEPT ![h] =
          IF op \in {"add", "patch"} /\ ~ValidRole(role)
          THEN [IdleHandler EXCEPT !.op = op, !.pc = "respond",
                                   !.userId = u, !.role = role,
                                   !.projectId = container.project,
                                   !.status = 400]
          ELSE [IdleHandler EXCEPT !.op = op,
                                   !.pc = IF op = "remove" THEN "list"
                                          ELSE "getMember",
                                   !.userId = u,
                                   !.role = IF op = "remove" THEN NoMember
                                            ELSE role,
                                   !.projectId = container.project]]
    /\ UNCHANGED container
    /\ CachesUntouched

\* DELETE: getProjectMembers and the last-owner check
MemberList(h) ==
    /\ handlers[h].op = "remove" /\ handlers[h].pc = "list"
    /\ LET sole == OwnersIn(container, handlers[h].projectId)
                     = {handlers[h].userId}
       IN  IF IsLastOwner(ProjectMembers(container), handlers[h].userId)
           THEN handlers' = [handlers EXCEPT ![h].pc = "respond",
                                            ![h].status = 400,
                                            ![h].sole = sole]
           ELSE handlers' = [handlers EXCEPT ![h].pc = "getMember",
                                            ![h].sole = sole]
    /\ UNCHANGED container
    /\ CachesUntouched

\* getMember inside addMember / updateMemberRole / removeMember: results[0]
\* of the query, whichever matching document the store lists first
MemberGet(h) ==
    /\ handlers[h].pc = "getMember"
    /\ LET matches == MemberMatches(container, handlers[h].userId,
                                    handlers[h].projectId)
       IN  IF handlers[h].op = "add"
           THEN IF matches # {}
                THEN HandlerEnds(h, 500)
                ELSE handlers' = [handlers EXCEPT ![h].pc = "create"]
           ELSE IF matches = {}
                THEN HandlerEnds(h, 500)
                ELSE \E d \in matches :
                       handlers' = [handlers EXCEPT
                          ![h].found = d,
                          ![h].pc = IF handlers[h].op = "patch"
                                    THEN "getById" ELSE "delete"]
    /\ UNCHANGED container
    /\ CachesUntouched

\* addMember: this.create(member) with id member_<projectId>_<userId>_<now>;
\* the store refuses an id the partition already holds
MemberCreate(h) ==
    /\ handlers[h].op = "add" /\ handlers[h].pc = "create"
    /\ LET id == <<"member", handlers[h].projectId, handlers[h].userId, now>>
       IN  IF \E d \in container.members : d.id = id
           THEN HandlerEnds(h, 500) /\ UNCHANGED container
           ELSE /\ container' = [container EXCEPT !.members = @ \cup
                     {MemberDoc(id, handlers[h].projectId,
                                handlers[h].userId, handlers[h].role)}]
                /\ handlers' = [handlers EXCEPT ![h].pc = "invAccess",
                                                ![h].status = 201]
    /\ CachesUntouched

\* Repository.update: getById(member.id)
MemberGetById(h) ==
    /\ handlers[h].op = "patch" /\ handlers[h].pc = "getById"
    /\ IF \E d \in container.members : d.id = handlers[h].found.id
       THEN \E d \in container.members :
              /\ d.id = handlers[h].found.id
              /\ handlers' = [handlers EXCEPT ![h].found = d,
                                              ![h].pc = "upsert"]
       ELSE HandlerEnds(h, 500)
    /\ UNCHANGED container
    /\ CachesUntouched

\* Repository.update: upsert({...existing, role})
MemberUpsert(h) ==
    /\ handlers[h].op = "patch" /\ handlers[h].pc = "upsert"
    /\ container' = [container EXCEPT !.members =
          {d \in @ : d.id # handlers[h].found.id}
             \cup {[handlers[h].found EXCEPT !.role = handlers[h].role]}]
    /\ handlers' = [handlers EXCEPT ![h].pc = "invAccess",
                                    ![h].status = 200]
    /\ CachesUntouched

\* removeMember: this.delete(member.id); deleting a document that is gone
\* rejects
MemberDelete(h) ==
    /\ handlers[h].op = "remove" /\ handlers[h].pc = "delete"
    /\ IF \E d \in container.members : d.id = handlers[h].found.id
       THEN /\ container' = [container EXCEPT !.members =
                   {d \in @ : d.id # handlers[h].found.id}]
            /\ handlers' = [handlers EXCEPT ![h].pc = "invAccess",
                                            ![h].status = 204]
       ELSE HandlerEnds(h, 500) /\ UNCHANGED container
    /\ CachesUntouched

\* await invalidateProjectAccessCache(userId, projectId)
MemberInvAccess(h) ==
    /\ handlers[h].pc = "invAccess"
    /\ LET u == handlers[h].userId
           p == handlers[h].projectId
           used == ~Bypass(cacheKind, connected)
       IN  /\ accessCache' = IF used /\ cacheKind = "memory"
                             THEN MemInvalidateAccess(accessCache, u, p)
                             ELSE accessCache
           /\ userProjectsCache' = IF used /\ cacheKind = "memory"
                                   THEN MemInvalidateAccessList(userProjectsCache, u)
                                   ELSE userProjectsCache
           /\ redisStore' = IF used /\ cacheKind = "redis"
                            THEN RedisInvalidateAccess(redisStore, u, p,
                                                       FALSE, FALSE)
                            ELSE redisStore
           /\ invClean' = invClean
                            \cup (IF used THEN {AKey(u, p), LKey(u)} ELSE {})
    /\ handlers' = [handlers EXCEPT ![h].pc = "invList",
                                    ![h].calls = Append(@, "access")]
    /\ UNCHANGED <<life, cacheKind, connected, now, store, req, mut,
                   absentClean, container>>

\* await invalidateUserProjectsCache(userId)
MemberInvList(h) ==
    /\ handlers[h].pc = "invList"
    /\ LET u == handlers[h].userId
           used == ~Bypass(cacheKind, connected)
       IN  /\ userProjectsCache' = IF used /\ cacheKind = "memory"
                                   THEN MemInvalidateUserProjects(userProjectsCache, u)
                                   ELSE userProjectsCache
           /\ redisStore' = IF used /\ cacheKind = "redis"
                            THEN RedisInvalidateUserProjects(redisStore, u, FALSE)
                            ELSE redisStore
    /\ handlers' = [handlers EXCEPT ![h].pc = "respond",
                                    ![h].calls = Append(@, "list")]
    /\ UNCHANGED <<life, cacheKind, connected, accessCache, now, store, req,
                   mut, invClean, absentClean, container>>

\* the response leaves
MemberRespond(h) ==
    /\ handlers[h].pc = "respond"
    /\ handlers' = [handlers EXCEPT ![h] = IdleHandler]
    /\ UNCHANGED container
    /\ CachesUntouched

\* DELETE /api/projects/:client_name/:slug behind requireProjectAccess(
\* 'owner'): the project document goes, the member documents stay
DeleteProject ==
    /\ OwnerAdmitted(container)
    /\ container' = [container EXCEPT !.project = NoProject,
                                      !.deleted = @ \cup {container.project}]
    /\ UNCHANGED handlers
    /\ CachesUntouched

\* POST /api/projects: 409 when the partition holds a project; else the
\* project document {id: randomUUID(), ...req.body, ...} (an id in the
\* body replaces the drawn one) and the creator's owner document
PostProject(u, bodyId) ==
    /\ container.project = NoProject
    /\ container.serial < MaxCreates
    /\ \E drawn \in ProjectIds \ container.used :
          LET id == IF bodyId # NoProject THEN bodyId ELSE drawn
          IN  container' = [container EXCEPT
                 !.project = id,
                 !.used = @ \cup {id},
                 !.serial = @ + 1,
                 !.members = @ \cup
                    {MemberDoc(<<"uuid", container.serial + 1>>, id, u,
                               "owner")}]
    /\ UNCHANGED handlers
    /\ CachesUntouched

InitMembers ==
    /\ cacheKind = "memory"
    /\ life = StartedLife(cacheKind)
    /\ connected = FALSE
    /\ accessCache = EmptyMap
    /\ userProjectsCache = EmptyMap
    /\ redisStore = EmptyMap
    /\ now = 0
    /\ store = [k \in Users \X Projects |-> NoMember]
    /\ req = [r \in CallIds |-> IdleReq]
    /\ mut = IdleMut
    /\ invClean = {}
    /\ absentClean = {}
    /\ container = [EmptyContainer EXCEPT
                      !.project = <<"p1">>,
                      !.used = {<<"p1">>},
                      !.serial = 1,
                      !.members = {MemberDoc(<<"uuid", 1>>, <<"p1">>,
                                             <<"u1">>, "owner")}]
    /\ handlers = NoHandlers

MemberRoleInputs == {"owner", "viewer", "admin"}

\* Date.now() moving on between two requests
MemberTick == now < MaxStamps * MsPerSec /\ Tick

\* (the second slot is taken only while the first is busy: which slot a
\* request gets does not matter)
NextMembers ==
    \/ \E h \in HandlerIds, op \in {"add", "patch"}, u \in Users,
          role \in MemberRoleInputs :
          /\ h = 2 => handlers[1].op # "idle"
          /\ MemberStart(h, op, u, role)
    \/ \E h \in HandlerIds, u \in Users :
          /\ h = 2 => handlers[1].op # "idle"
          /\ MemberStart(h, "remove", u, NoMember)
    \/ \E h \in HandlerIds : MemberList(h)
    \/ \E h \in HandlerIds : MemberGet(h)
    \/ \E h \in HandlerIds : MemberCreate(h)
    \/ \E h \in HandlerIds : MemberGetById(h)
    \/ \E h \in HandlerIds : MemberUpsert(h)
    \/ \E h \in HandlerIds : MemberDelete(h)
    \/ \E h \in HandlerIds : MemberInvAccess(h)
    \/ \E h \in HandlerIds : MemberInvList(h)
    \/ \E h \in HandlerIds : MemberRespond(h)

SpecMembers == InitMembers /\ [][NextMembers]_vars

\* Two POST member requests in flight while the clock moves
NextAdd ==
    \/ \E h \in HandlerIds, u \in Users, role \in MemberRoleInputs :
          /\ h = 2 => handlers[1].op # "idle"
          /\ MemberStart(h, "add", u, role)
    \/ \E h \in HandlerIds : MemberGet(h)
    \/ \E h \in HandlerIds : MemberCreate(h)
    \/ \E h \in HandlerIds : MemberInvAccess(h)
    \/ \E h \in HandlerIds : MemberInvList(h)
    \/ \E h \in HandlerIds : MemberRespond(h)
    \/ MemberTick

SpecAdd == InitMembers /\ [][NextAdd]_vars

\* One member request at a time, next to deleting the project and creating
\* it again
NextRecreate ==
    \/ \E op \in {"add", "patch"}, u \in Users, role \in MemberRoleInputs :
          MemberStart(1, op, u, role)
    \/ \E u \in Users : MemberStart(1, "remove", u, NoMember)
    \/ MemberList(1)
    \/ MemberGet(1)
    \/ MemberCreate(1)
    \/ MemberGetById(1)
    \/ MemberUpsert(1)
    \/ MemberDelete(1)
    \/ MemberInvAccess(1)
    \/ MemberInvList(1)
    \/ MemberRespond(1)
    \/ handlers[1].op = "idle" /\ DeleteProject
    \/ \E u \in Users : handlers[1].op = "idle" /\ PostProject(u, NoProject)

SpecRecreate == InitMembers /\ [][NextRecreate]_vars

\* ------------------------------------------------------------------------
\* Requests to the project routes through the guard chain, the project
\* resolved from the store and the membership looked up through the
\* cache, next to DELETE of the project and POST creating it again
\* ------------------------------------------------------------------------
\* checkProjectAccess: getProjectsByClientAndSlug, 404 when there is none,
\* else projectId = project.id
GuardResolveProject ==
    /\ NoneReturning
    /\ mut.pc = "resolve"
    /\ mut' = IF container.project = NoProject
              THEN [mut EXCEPT !.pc = "respond", !.status = 404,
                               !.why = "notfound"]
              ELSE [mut EXCEPT !.pc = "checking",
                               !.projectId = container.project]
    /\ UNCHANGED <<container, handlers, life, cacheKind, connected,
                   accessCache, userProjectsCache, redisStore, now, store,
                   req, invClean, absentClean>>

\* the fallback of checkProjectAccess: projectMemberRepo.getMember(...)
FallbackAccessDocs(r) ==
    /\ NoneReturning
    /\ req[r].op = "access" /\ req[r].pc = "fetch"
    /\ LET matches == MemberMatches(container, req[r].userId,
                                    req[r].projectId)
       IN  \E m \in IF matches = {} THEN {NoMember}
                     ELSE {d.role : d \in matches} :
             req' = [req EXCEPT ![r].member = m,
                                ![r].fresh = TRUE,
                                ![r].pc = "resume"]
    /\ UNCHANGED <<container, handlers, life, cacheKind, connected,
                   accessCache, userProjectsCache, redisStore, now, store,
                   mut, invClean, absentClean>>

\* the handler of DELETE /api/projects/:client_name/:slug:
\* container.item(projectId, ...).delete(), 204; a document that is gone
\* makes delete() reject, 500
GuardDeleteHandler ==
    /\ NoneReturning
    /\ mut.pc = "handler"
    /\ IF container.project = mut.projectId
       THEN /\ container' = [container EXCEPT
                               !.project = NoProject,
                               !.deleted = @ \cup {mut.projectId}]
            /\ mut' = [mut EXCEPT !.pc = "respond", !.status = 204,
                                  !.trail = Append(@, "handler"),
                                  !.why = "handled"]
       ELSE /\ mut' = [mut EXCEPT !.pc = "respond", !.status = 500,
                                  !.trail = Append(@, "handler"),
                                  !.why = "handled"]
            /\ UNCHANGED container
    /\ UNCHANGED <<handlers, life, cacheKind, connected, accessCache,
                   userProjectsCache, redisStore, now, store, req, invClean,
                   absentClean>>

InitProject ==
    /\ cacheKind \in CacheKinds
    /\ life = StartedLife(cacheKind)
    /\ connected = (cacheKind = "redis")
    /\ accessCache = EmptyMap
    /\ userProjectsCache = EmptyMap
    /\ redisStore = EmptyMap
    /\ now = 0
    /\ store = [k \in Users \X Projects |-> NoMember]
    /\ req = [r \in CallIds |-> IdleReq]
    /\ mut = IdleMut
    /\ invClean = {}
    /\ absentClean = {}
    /\ container = [EmptyContainer EXCEPT
                      !.project = <<"p1">>,
                      !.used = {<<"p1">>},
                      !.serial = 1,
                      !.members = {MemberDoc(<<"uuid", 1>>, <<"p1">>,
                                             <<"u2">>, "owner"),
                                   MemberDoc(<<"member", <<"p1">>, <<"u1">>, 0>>,
                                             <<"p1">>, <<"u1">>, "viewer")}]
    /\ handlers = NoHandlers

\* req.body.id of POST /api/projects: absent, or any string
BodyIds == {NoProject} \cup ProjectIds

NextProject ==
    \/ \E token \in TokenStates, u \in Users, minRole \in {"viewer", "owner"} :
          GuardVerify(token, u, NoProject, minRole)
    \/ GuardResolveProject
    \/ \E r \in ReqIds : GuardLookup(r, FALSE)
    \/ \E r \in ReqIds : Proceed(r)
    \/ \E r \in ReqIds : FallbackAccessDocs(r)
    \/ \E r \in ReqIds : ResumeAccess(r, FALSE)
    \/ \E r \in ReqIds : GuardDecide(r)
    \/ GuardRole
    \/ mut.minRole = "viewer" /\ GuardHandler
    \/ mut.minRole = "owner" /\ GuardDeleteHandler
    \/ MutRespond
    \/ \E u \in Users, bodyId \in BodyIds :
          mut.pc = "idle" /\ PostProject(u, bodyId)

SpecProject == InitProject /\ [][NextProject]_vars

\* ------------------------------------------------------------------------
\* Properties
\* ------------------------------------------------------------------------

\* C1: a getCachedProjectAccess call that found no entry on a connected
\* backend has invoked its fallback exactly once; it returns the fallback's
\* result without an error, and when that result is non-absent and the
\* backend accepted the set, the entry held under (userId, projectId) is that
\* result, expiring TtlProjectAccess seconds after the store.
C1_MissFetchesAndStores ==
    \A r \in ReqIds :
      (req[r].op = "access" /\ ~req[r].bypass /\ ~req[r].hit
         /\ req[r].pc \in {"missed", "done"}) =>
        /\ req[r].fbCalls = 1
        /\ req[r].pc = "done" =>
             /\ req[r].result = req[r].fbResult
             /\ ~req[r].err
             /\ (req[r].fbResult # Absent /\ req[r].setOk) =>
                   req[r].postSet =
                      [data |-> req[r].fbResult,
                       expiresAt |-> now + TtlProjectAccess * MsPerSec,
                       storedAt |-> now]

C1_Witness ==
    \E r \in ReqIds :
      /\ req[r].op = "access" /\ req[r].pc = "done"
      /\ ~req[r].bypass /\ ~req[r].hit /\ req[r].fbCalls = 1
      /\ req[r].fbResult # Absent /\ req[r].setOk
      /\ req[r].result = req[r].fbResult
      /\ req[r].postSet # NoEntry

\* C2: once the mutation's response has been sent, a getCachedProjectAccess
\* call that starts afterwards and is served by the in-process backend
\* returns the role the store holds after the mutation (a removed member is
\* never served a record).
C2_FreshAfterResponse ==
    \A r \in ReqIds :
      (cacheKind = "memory" /\ mut.pc = "idle"
         /\ req[r].op = "access" /\ req[r].pc = "done" /\ req[r].hit) =>
        req[r].result.role = store[<<req[r].userId, req[r].projectId>>]

\* C3: a getCachedProjectAccess(u, p) that follows a delivered
\* invalidateProjectAccessCache(u, p), with no store for (u, p) in between,
\* is not a hit: it invokes its fallback, once.
C3_InvalidatedAccessMisses ==
    \A r \in ReqIds :
      (req[r].op = "access" /\ req[r].sawInv) =>
        /\ ~req[r].hit
        /\ req[r].pc = "missed"
        /\ req[r].fbCalls = 1

C3_Witness ==
    \E r \in ReqIds :
      /\ req[r].op = "access" /\ req[r].sawInv
      /\ ~req[r].bypass /\ req[r].pc = "missed" /\ req[r].fbCalls = 1
      /\ store[<<req[r].userId, req[r].projectId>>] # NoMember

\* C4: a getCachedUserProjects(u) that follows a delivered
\* invalidateProjectAccessCache(u, p), with no store of u's list in between,
\* is not a hit: it invokes its fallback, once.
C4_InvalidatedListMisses ==
    \A r \in ReqIds :
      (req[r].op = "list" /\ req[r].sawInv) =>
        /\ ~req[r].hit
        /\ req[r].pc = "missed"
        /\ req[r].fbCalls = 1

C4_Witness ==
    \E r \in ReqIds :
      /\ req[r].op = "list" /\ req[r].sawInv
      /\ ~req[r].bypass /\ req[r].pc = "missed" /\ req[r].fbCalls = 1
      /\ mut.pc = "invList"

\* C5: with the connection to Redis coming and going, every authorization
\* check that has returned while no mutation is in progress resolved to the
\* role the store holds, or to no access when the store holds no member.
C5_DecisionMatchesStore ==
    \A r \in ReqIds :
      (mut.pc = "idle" /\ req[r].op = "access" /\ req[r].pc = "done") =>
        IF req[r].result = Absent
        THEN store[<<req[r].userId, req[r].projectId>>] = NoMember
        ELSE req[r].result.role = store[<<req[r].userId, req[r].projectId>>]

\* C6: the in-process backend never returns an entry later than its store
\* time plus its TTL, and every entry it holds still expires exactly one TTL
\* after it was stored, whatever reads and sweeps have happened since.
C6_NoHitPastTtl ==
    /\ \A r \in ReqIds :
         (req[r].pc = "done" /\ req[r].hit) =>
           req[r].getTime <= req[r].gotEntry.storedAt
                 + (IF req[r].op = "access" THEN TtlProjectAccess
                    ELSE TtlUserProjects) * MsPerSec
    /\ \A k \in DOMAIN accessCache :
         accessCache[k].expiresAt
            = accessCache[k].storedAt + TtlProjectAccess * MsPerSec
    /\ \A k \in DOMAIN userProjectsCache :
         userProjectsCache[k].expiresAt
            = userProjectsCache[k].storedAt + TtlUserProjects * MsPerSec

C6_Witness ==
    \E r \in ReqIds :
      /\ req[r].op = "access" /\ req[r].pc = "missed" /\ ~req[r].hit
      /\ req[r].gotEntry # NoEntry
      /\ req[r].getTime
           > req[r].gotEntry.storedAt + TtlProjectAccess * MsPerSec

\* C7: a getCachedProjectAccess call that found an unexpired entry on a
\* connected backend, its get answered, returns exactly the entry's record
\* and does not invoke the fallback.
C7_LiveEntryReturned ==
    \A r \in ReqIds :
      (req[r].op = "access" /\ req[r].pc \in {"missed", "done"}
         /\ ~req[r].bypass /\ ~req[r].getFailed
         /\ req[r].gotEntry # NoEntry
         /\ req[r].getTime <= req[r].gotEntry.expiresAt) =>
        /\ req[r].pc = "done"
        /\ req[r].hit
        /\ req[r].fbCalls = 0
        /\ req[r].result = req[r].gotEntry.data

C7_Witness ==
    \E r \in ReqIds :
      /\ req[r].op = "access" /\ req[r].pc = "done" /\ req[r].hit
      /\ req[r].gotEntry # NoEntry
      /\ req[r].result = req[r].gotEntry.data
      /\ req[r].fbCalls = 0

\* C8: when the fallback of getCachedProjectAccess returns absent the helper
\* issues no set and returns absent, and a later call for the same pair, no
\* record stored for it in between, invokes its fallback again.
C8_AbsentNeverCached ==
    \A r \in ReqIds :
      req[r].op = "access" =>
        /\ (req[r].pc = "done" /\ ~req[r].hit /\ req[r].fbResult = Absent) =>
             /\ ~req[r].setOk
             /\ req[r].ops = (IF req[r].bypass THEN 0 ELSE 1)
             /\ req[r].result = Absent
        /\ req[r].sawAbsent =>
             /\ ~req[r].hit
             /\ req[r].pc = "missed"
             /\ req[r].fbCalls = 1

C8_Witness ==
    \E r \in ReqIds :
      /\ req[r].op = "access" /\ req[r].sawAbsent
      /\ ~req[r].bypass /\ req[r].pc = "missed" /\ req[r].fbCalls = 1

\* C9: with no backend set, or a backend whose isConnected() is false, a
\* cache-aside call goes straight to its fallback: one fallback call, its
\* result returned, no get and no set on the backend; the disabled variant
\* and the unset helper never hold anything.
C9_BypassWithoutBackend ==
    /\ \A r \in ReqIds :
         /\ ((cacheKind \in {"noop", "unset"}
                \/ (cacheKind = "redis" /\ ~connected))
              /\ (req[r].pc = "missed" \/ (req[r].pc = "done" /\ req[r].hit)))
             => req[r].bypass
         /\ req[r].bypass =>
              /\ ~req[r].hit
              /\ req[r].fbCalls = 1
              /\ req[r].ops = 0
              /\ req[r].pc = "done" =>
                   /\ ~req[r].err /\ ~req[r].setOk
                   /\ req[r].op = "access" => req[r].result = req[r].fbResult
                   /\ req[r].op = "list" => req[r].resultList = req[r].fbList
    /\ cacheKind \in {"noop", "unset"} =>
         /\ accessCache = EmptyMap
         /\ userProjectsCache = EmptyMap
         /\ redisStore = EmptyMap

C9_Witness ==
    \E r \in ReqIds :
      /\ cacheKind = "noop"
      /\ req[r].op = "list" /\ req[r].pc = "done" /\ req[r].bypass
      /\ req[r].fbCalls = 1 /\ req[r].ops = 0
      /\ req[r].resultList = req[r].fbList /\ req[r].fbList # <<>>

\* C10: a cache-aside call whose set was rejected by the backend's storage
\* returns the fallback's value and raises no error.
C10_StoreFailureAbsorbed ==
    \A r \in ReqIds :
      (req[r].pc = "done" /\ req[r].setFailed) =>
        /\ ~req[r].err
        /\ req[r].op = "access" =>
             (req[r].result = req[r].fbResult /\ req[r].fbResult # Absent)
        /\ req[r].op = "list" => req[r].resultList = req[r].fbList

C10_Witness ==
    \E r \in ReqIds :
      /\ req[r].op = "access" /\ req[r].pc = "done" /\ req[r].setFailed
      /\ ~req[r].setOk /\ ~req[r].err
      /\ req[r].result = req[r].fbResult

\* C11: when the fallback of a cache-aside call fails, the helper's caller
\* gets that same failure, the helper has issued nothing but its get, and the
\* backend holds for the key what it held before.
C11_FallbackFailurePropagates ==
    \A r \in ReqIds :
      (req[r].pc = "done" /\ req[r].fbError # "none") =>
        /\ req[r].err
        /\ req[r].raised = req[r].fbError
        /\ req[r].fbCalls = 1
        /\ ~req[r].setOk
        /\ req[r].ops = (IF req[r].bypass THEN 0 ELSE 1)
        /\ req[r].postSet = req[r].gotEntry

C11_Witness ==
    \E r \in ReqIds :
      /\ req[r].op = "list" /\ req[r].pc = "done" /\ ~req[r].bypass
      /\ req[r].fbError = "QueryFailed" /\ req[r].raised = "QueryFailed"
      /\ cacheKind = "redis"
      /\ \E k \in DOMAIN redisStore : TRUE

\* C12: when a member handler (POST 201, PATCH 200, DELETE 204) is about to
\* send the response of a successful write, it has awaited the invalidation
\* of the target's access record and then of the target's project list; a
\* handler that has written is never idle before both.
C12_InvalidatedBeforeResponse ==
    /\ (mut.pc = "respond" /\ mut.status \in {200, 201, 204}) =>
          mut.calls = <<"access", "list">>
    /\ mut.pc \in {"idle", "invAccess", "invList", "respond"}
    /\ mut.pc = "invAccess" => mut.calls = <<>>
    /\ mut.pc = "invList" => mut.calls = <<"access">>

C12_Witness ==
    /\ mut.pc = "respond" /\ mut.status = 204
    /\ mut.calls = <<"access", "list">>
    /\ store[<<mut.userId, mut.projectId>>] = NoMember
    /\ cacheKind = "memory"
    /\ MemKey(mut.userId, mut.projectId) \notin DOMAIN accessCache

\* C13: a GET /api/projects that returns while no creation is in progress
\* lists every project the store holds a member document of the caller for;
\* in particular the creator's list shows the project after the 201.
C13_ListShowsCreatedProject ==
    \A r \in ReqIds :
      (mut.pc = "idle" /\ req[r].op = "list" /\ req[r].pc = "done") =>
        \A p \in Projects :
          store[<<req[r].userId, p>>] # NoMember =>
            \E i \in 1..Len(req[r].resultList) :
              req[r].resultList[i].projectId = p

\* C14: staleness of the in-process backend's access records is bounded by
\* the TTL.  A record, stale or not, is served no later than TtlProjectAccess
\* seconds after it was stored; a call that finds it later misses; and a
\* call that missed, no member document written since it queried the store,
\* returns with no error the role the store holds (absent for no member).
C14_StalenessBoundedByTtl ==
    \A r \in ReqIds :
      req[r].op = "access" =>
        /\ (req[r].pc \in {"missed", "done"} /\ req[r].gotEntry # NoEntry
              /\ req[r].fbError = "none"
              /\ req[r].getTime
                   > req[r].gotEntry.storedAt + TtlProjectAccess * MsPerSec)
             => (~req[r].hit /\ req[r].pc = "missed")
        /\ (req[r].pc = "done" /\ ~req[r].hit /\ req[r].fbError = "none"
              /\ req[r].fresh)
             => /\ ~req[r].err
                /\ IF store[<<req[r].userId, req[r].projectId>>] = NoMember
                   THEN req[r].result = Absent
                   ELSE /\ req[r].result # Absent
                        /\ req[r].result.role
                             = store[<<req[r].userId, req[r].projectId>>]

\* A stale record (the set of a call that was in flight during the write)
\* has outlived its TTL, and the call finding it misses.
C14_Witness ==
    \E r \in ReqIds :
      /\ req[r].op = "access" /\ req[r].pc = "missed" /\ ~req[r].hit
      /\ req[r].gotEntry # NoEntry
      /\ req[r].gotEntry.data.role
           # store[<<req[r].userId, req[r].projectId>>]
      /\ mut.pc = "idle"
      /\ req[r].getTime
           > req[r].gotEntry.storedAt + TtlProjectAccess * MsPerSec

\* C15: when invalidateProjectCache(p) has returned from a connected
\* in-process or networked backend, every client call answered, the backend
\* holds no access record of project p for any user and no user's project
\* list.
C15_ProjectCacheCleared ==
    (mut.pc = "returned" /\ mut.calls = <<"project">> /\ mut.status = 0) =>
       /\ \A u \in Users :
            AccessEntryOf(cacheKind, accessCache, redisStore, u,
                          mut.projectId) = NoEntry
       /\ \A u \in Users :
            ListEntryOf(cacheKind, userProjectsCache, redisStore, u) = NoEntry

\* C16: after disconnect() has returned on a running backend, none of the
\* intervals the instance scheduled (sweep, token refresh) is still
\* scheduled, whatever connect() and disconnect() calls came before.
C16_NoTimerAfterDisconnect ==
    (life.phase = "running" /\ life.last = "disconnect") => life.timers = {}

\* C17: a connect() that resolves directly after a connect() that resolved
\* leaves the cached entries, isConnected() and the number of scheduled
\* intervals as they were.
C17_ConnectIdempotent ==
    [][(/\ life.last = "connect" /\ life'.last = "connect"
        /\ life'.connects = life.connects + 1)
       => /\ Cardinality(life'.timers) = Cardinality(life.timers)
          /\ IsConnected(cacheKind', connected')
               = IsConnected(cacheKind, connected)
          /\ accessCache' = accessCache
          /\ userProjectsCache' = userProjectsCache
          /\ redisStore' = redisStore]_vars

\* C18: once createCache has returned the backend it selected, the backend
\* is the one the configuration determines: disabled when caching is not
\* enabled; for redis the networked one when a host is set, else the
\* in-process one; in-process for memory; disabled for none; in-process for
\* any other kind; and the networked one authenticates with the access key
\* exactly when one is configured.
C18_BackendByConfig ==
    (life.phase = "running" /\ ~life.connectThrew) =>
      LET c == life.config
      IN  /\ ~c.enabled => cacheKind = "noop"
          /\ (c.enabled /\ c.kind = "redis" /\ ~c.host)
               => cacheKind = "memory"
          /\ (c.enabled /\ c.kind = "redis" /\ c.host)
               => /\ cacheKind = "redis"
                  /\ c.key => life.auth = "access-key"
                  /\ ~c.key => life.auth = "entra-id"
          /\ (c.enabled /\ c.kind = "memory") => cacheKind = "memory"
          /\ (c.enabled /\ c.kind = "none") => cacheKind = "noop"
          /\ (c.enabled /\ c.kind = "other") => cacheKind = "memory"

\* An unrecognized kind has given the in-process backend, which serves a
\* cache-aside call.
C18_Witness ==
    /\ life.phase = "running" /\ life.config.enabled
    /\ life.config.kind = "other" /\ cacheKind = "memory"
    /\ \E r \in ReqIds : req[r].pc = "done" /\ req[r].setOk

\* C19: createCache never rejects; when connect() of the selected backend
\* has thrown, the server runs with a NoOpCache on which connect() was
\* called, nothing is cached, and every cache-aside call bypasses: one
\* fallback call, its result returned, no backend operation, no error.
C19_CreateCacheNeverFails ==
    /\ life.phase # "failed" /\ ~life.raised
    /\ life.connectThrew =>
         /\ life.phase = "running" /\ cacheKind = "noop"
         /\ life.connects >= 1
         /\ ~IsConnected(cacheKind, connected)
         /\ accessCache = EmptyMap /\ userProjectsCache = EmptyMap
         /\ redisStore = EmptyMap
         /\ \A r \in ReqIds :
              req[r].op # "idle" =>
                /\ req[r].bypass /\ ~req[r].hit
                /\ req[r].fbCalls = 1 /\ req[r].ops = 0
                /\ req[r].pc = "done" =>
                     /\ ~req[r].err
                     /\ req[r].op = "access"
                          => req[r].result = req[r].fbResult
                     /\ req[r].op = "list"
                          => req[r].resultList = req[r].fbList

C19_Witness ==
    /\ life.connectThrew /\ life.phase = "running"
    /\ \E r \in ReqIds :
         /\ req[r].op = "access" /\ req[r].pc = "done" /\ req[r].bypass
         /\ req[r].result = req[r].fbResult /\ req[r].fbResult # Absent

\* C20: on the networked backend no failing client call is raised: a
\* cache-aside call whose get failed goes on as a miss, one whose set
\* failed returns the fallback's value, and an invalidation (of one access
\* record with its list, of one list, of a whole project) with a failing
\* call returns to its caller.
C20_RedisErrorsAbsorbed ==
    /\ ~mut.raised
    /\ mut.failed => mut.pc \in {"invList", "respond", "returned"}
    /\ \A r \in ReqIds :
         /\ ~req[r].err
         /\ req[r].getFailed =>
              /\ ~req[r].hit /\ req[r].fbCalls = 1
              /\ req[r].op = "access"
                   => (req[r].pc = "missed" => req[r].result = Absent)
         /\ (req[r].pc = "done" /\ req[r].setFailed) =>
              /\ req[r].op = "access" => req[r].result = req[r].fbResult
              /\ req[r].op = "list" => req[r].resultList = req[r].fbList

\* The two-key delete of a member mutation has failed and the handler has
\* gone on, while a call whose get failed on a stored record is a miss.
C20_Witness ==
    /\ mut.pc = "invList" /\ mut.failed /\ ~mut.raised
    /\ \E r \in ReqIds :
         /\ req[r].op = "access" /\ req[r].pc = "missed"
         /\ req[r].getFailed /\ req[r].gotEntry # NoEntry
         /\ req[r].result = Absent /\ ~req[r].err

\* The instants at which a later get can tell entries of the map apart: the
\* present and the instants around each entry's expiry that are not past.
ProbeTimes(map) ==
    {now} \cup {t \in {map[k].expiresAt + d : k \in DOMAIN map,
                                              d \in {-1, 0, 1}} : t >= now}

\* C21: on the in-process backend a sweep run now changes the result of no
\* get, now or later: for every key and every later instant a get on the
\* swept map returns what a get on the unswept map returns, and sweeping
\* again changes nothing.
C21_SweepInvisible ==
    cacheKind = "memory" =>
      /\ \A u \in Users, p \in Projects, t \in ProbeTimes(accessCache) :
           MemGetResult(MemCleanupMap(accessCache, now), MemKey(u, p), t)
             = MemGetResult(accessCache, MemKey(u, p), t)
      /\ \A u \in Users, t \in ProbeTimes(userProjectsCache) :
           MemGetResult(MemCleanupMap(userProjectsCache, now), u, t)
             = MemGetResult(userProjectsCache, u, t)
      /\ MemCleanupMap(MemCleanupMap(accessCache, now), now)
           = MemCleanupMap(accessCache, now)
      /\ MemCleanupMap(MemCleanupMap(userProjectsCache, now), now)
           = MemCleanupMap(userProjectsCache, now)

\* A sweep now would delete an expired project list and keep an access
\* record that expires at this very instant and still hits.
C21_Witness ==
    /\ cacheKind = "memory"
    /\ MemCleanupMap(userProjectsCache, now) # userProjectsCache
    /\ \E k \in DOMAIN accessCache :
         /\ accessCache[k].expiresAt = now
         /\ MemGetResult(accessCache, k, now) # Absent
         /\ k \in DOMAIN MemCleanupMap(accessCache, now)

\* C22: when a setProjectAccess has completed, the backend holds for its
\* (u, p) exactly the record that call passed, every field, with the expiry
\* that call computed, also when another call's set for the same pair came
\* in between this call's get and its set; since the call completing last
\* is the one that wrote last, after two concurrent sets the entry is the
\* later one's in full.
C22_LastSetWinsWhole ==
    \A r \in ReqIds :
      (req[r].op = "access" /\ req[r].pc = "done" /\ req[r].setOk) =>
        /\ req[r].postSet # NoEntry
        /\ req[r].postSet.data = req[r].fbResult
        /\ req[r].postSet.expiresAt = now + TtlProjectAccess * MsPerSec
        /\ AccessEntryOf(cacheKind, accessCache, redisStore, req[r].userId,
                         req[r].projectId) = req[r].postSet

\* The set of a call that missed on an empty key has replaced the record
\* another call stored meanwhile, with another role, stored at an earlier
\* instant.
C22_Witness ==
    \E r \in ReqIds :
      /\ req[r].op = "access" /\ req[r].pc = "done" /\ req[r].setOk
      /\ req[r].preSet # NoEntry
      /\ req[r].preSet.data.role # req[r].fbResult.role
      /\ req[r].preSet.expiresAt < req[r].postSet.expiresAt
      /\ req[r].postSet.data = req[r].fbResult

\* C23: on an instance whose connect() was never called, every disconnect()
\* returns without an error, and the networked and the disabled variant
\* then report isConnected() false.
C23_DisconnectBeforeConnect ==
    (life.phase = "running" /\ life.connects = 0 /\ life.last # "none") =>
      /\ life.last = "disconnect"
      /\ cacheKind \in {"redis", "noop"}
           => ~IsConnected(cacheKind, connected)

\* disconnect() has returned on a RedisCache that never connected
C23_Witness ==
    /\ cacheKind = "redis" /\ life.connects = 0 /\ life.client = "none"
    /\ life.last = "disconnect"
    /\ ~IsConnected(cacheKind, connected)

\* C24: a getCachedUserProjects call that missed and stored has called its
\* fallback once, returns the fallback's list, and leaves for the user a
\* record wrapping exactly that list that expires one userProjects TTL
\* later; a call that finds the record no later than that returns the
\* record's list and does not call its fallback.
C24_ListMissStoresThenHits ==
    \A r \in ReqIds :
      /\ (req[r].op = "list" /\ req[r].pc = "done" /\ ~req[r].hit
            /\ ~req[r].bypass /\ req[r].setOk) =>
           /\ req[r].fbCalls = 1
           /\ req[r].resultList = req[r].fbList
           /\ req[r].postSet # NoEntry
           /\ req[r].postSet.data
                = UserProjectsRecord(req[r].userId, req[r].fbList, now)
           /\ req[r].postSet.expiresAt = now + TtlUserProjects * MsPerSec
      /\ (req[r].op = "list" /\ req[r].pc \in {"missed", "done"}
            /\ ~req[r].bypass /\ ~req[r].getFailed
            /\ req[r].gotEntry # NoEntry
            /\ req[r].getTime
                 <= req[r].gotEntry.storedAt + TtlUserProjects * MsPerSec) =>
           /\ req[r].pc = "done" /\ req[r].hit
           /\ req[r].fbCalls = 0
           /\ req[r].resultList = req[r].gotEntry.data.projects

\* A later call, at the last instant of the TTL, returns the stored
\* non-empty list without its fallback.
C24_Witness ==
    \E r \in ReqIds :
      /\ req[r].op = "list" /\ req[r].pc = "done" /\ req[r].hit
      /\ req[r].fbCalls = 0
      /\ req[r].getTime
           = req[r].gotEntry.storedAt + TtlUserProjects * MsPerSec
      /\ req[r].resultList = req[r].gotEntry.data.projects
      /\ req[r].resultList # <<>>

\* C25: a getCachedProjectAccess(u, p) call answered from the backend gets
\* a record that was stored for the same u and the same p, whatever
\* strings the identifiers are.
C25_NoSharedEntry ==
    \A r \in ReqIds :
      (req[r].op = "access" /\ req[r].pc = "done" /\ req[r].hit) =>
        /\ req[r].result.userId = req[r].userId
        /\ req[r].result.projectId = req[r].projectId

\* C26: the step invalidateProjectAccess(u, p) leaves the access record of
\* every other (user, project) pair and the project list of every other
\* user as they were, and the step invalidateUserProjects(u) leaves every
\* access record and every other user's project list as they were.
C26_InvalidationFrame ==
    [][/\ (mut.pc = "invAccess" /\ mut'.pc = "invList") =>
            /\ \A k \in DOMAIN store :
                 k # <<mut.userId, mut.projectId>> =>
                   AccessEntryOf(cacheKind, accessCache', redisStore',
                                 k[1], k[2])
                     = AccessEntryOf(cacheKind, accessCache, redisStore,
                                     k[1], k[2])
            /\ \A u \in Users :
                 u # mut.userId =>
                   ListEntryOf(cacheKind, userProjectsCache', redisStore', u)
                     = ListEntryOf(cacheKind, userProjectsCache, redisStore, u)
       /\ (mut.pc = "invList" /\ mut'.pc = "respond") =>
            /\ \A k \in DOMAIN store :
                 AccessEntryOf(cacheKind, accessCache', redisStore',
                               k[1], k[2])
                   = AccessEntryOf(cacheKind, accessCache, redisStore,
                                   k[1], k[2])
            /\ \A u \in Users :
                 u # mut.userId =>
                   ListEntryOf(cacheKind, userProjectsCache', redisStore', u)
                     = ListEntryOf(cacheKind, userProjectsCache, redisStore, u)
      ]_vars

\* invalidateProjectAccess(u, p) has run: the pair's record and u's list
\* are gone while u's record for the other project and the other user's
\* record and list are still held.
C26_Witness ==
    /\ mut.pc = "invList" /\ mut.calls = <<"access">>
    /\ AccessEntryOf(cacheKind, accessCache, redisStore, mut.userId,
                     mut.projectId) = NoEntry
    /\ ListEntryOf(cacheKind, userProjectsCache, redisStore, mut.userId)
         = NoEntry
    /\ \E p \in AllProjects :
         /\ p # mut.projectId
         /\ AccessEntryOf(cacheKind, accessCache, redisStore, mut.userId, p)
              # NoEntry
    /\ \E u \in Users :
         /\ u # mut.userId
         /\ AccessEntryOf(cacheKind, accessCache, redisStore, u,
                          mut.projectId) # NoEntry
         /\ ListEntryOf(cacheKind, userProjectsCache, redisStore, u) # NoEntry

\* C27: a getCachedUserProjects call whose fallback returned the empty list
\* stores a record with that empty list, and a call that finds such a
\* record within the userProjects TTL is a hit that returns the empty list
\* without calling its fallback; the access cache, by contrast, never holds
\* an absent record.
C27_EmptyListCached ==
    /\ \A r \in ReqIds :
         /\ (req[r].op = "list" /\ req[r].pc = "done" /\ ~req[r].hit
               /\ ~req[r].bypass /\ req[r].fbList = <<>>) =>
              /\ req[r].setOk
              /\ req[r].postSet # NoEntry
              /\ req[r].postSet.data.projects = <<>>
         /\ (req[r].op = "list" /\ req[r].pc \in {"missed", "done"}
               /\ ~req[r].bypass /\ req[r].gotEntry # NoEntry
               /\ req[r].gotEntry.data.projects = <<>>
               /\ req[r].getTime
                    <= req[r].gotEntry.storedAt + TtlUserProjects * MsPerSec) =>
              /\ req[r].pc = "done" /\ req[r].hit
              /\ req[r].fbCalls = 0
              /\ req[r].resultList = <<>>
    /\ \A k \in DOMAIN accessCache : accessCache[k].data # Absent

\* A call has been answered with a cached empty list, no fallback call,
\* while the user is indeed member of no project.
C27_Witness ==
    \E r \in ReqIds :
      /\ req[r].op = "list" /\ req[r].pc = "done" /\ req[r].hit
      /\ req[r].fbCalls = 0 /\ req[r].resultList = <<>>
      /\ req[r].gotEntry.data.projects = <<>>
      /\ UserRows(store, req[r].userId, StoreOrder(store)) = <<>>

\* C28: on the networked backend the connected flag rises only with a
\* 'connect' event (of a live client, or of the client a resolving connect()
\* connects) and is down after a disconnect() that quit the client and
\* after a connect() that threw; and while it is down no step sends the
\* server a command (the keyspace changes by expiry only), a call that
\* starts gets nothing from the backend, and a set that is due is skipped.
C28_ConnectedFlag ==
    [][cacheKind = "redis" =>
        /\ (~connected /\ connected') =>
             \/ life' = life /\ ClientAlive(life)
             \/ life'.last = "connect" /\ life'.connects = life.connects + 1
        /\ (life' # life /\ life'.last = "disconnect"
              /\ life.client # "none") => ~connected'
        /\ (life' # life /\ life'.last = "connectThrew") => ~connected'
        /\ (~connected /\ now' = now) => redisStore' = redisStore
        /\ \A r \in ReqIds :
             /\ (~connected /\ req[r].op = "idle" /\ req'[r].op # "idle") =>
                  (~req'[r].hit /\ req'[r].result = Absent)
             /\ (~connected /\ req[r].pc = "resume" /\ req'[r].pc = "done")
                  => ~req'[r].setOk
      ]_vars

\* The connection went down while a call was awaiting the store: the call
\* has handed its record to setProjectAccess, which sent nothing.
C28_Witness ==
    \E r \in ReqIds :
      /\ cacheKind = "redis" /\ ~connected
      /\ req[r].op = "access" /\ req[r].pc = "done" /\ ~req[r].bypass
      /\ req[r].fbResult # Absent /\ req[r].ops = 2 /\ ~req[r].setOk
      /\ redisStore = EmptyMap

\* C29: a token refresh that fails leaves the connected flag, the refresh
\* interval and its handle, the client and the keyspace as they were, and
\* after a failed refresh another refresh attempt follows.
C29_RefreshFailureHarmless ==
    /\ [][(life'.refreshBit # life.refreshBit
             /\ life'.lastRefresh = "failed") =>
            /\ connected' = connected
            /\ life'.timers = life.timers /\ life'.timers # {}
            /\ life'.handle = life.handle
            /\ life'.client = life.client
            /\ redisStore' = redisStore]_vars
    /\ \A b \in BOOLEAN :
         (life.lastRefresh = "failed" /\ life.refreshBit = b)
            ~> (life.refreshBit # b)

\* After a failed refresh a call is answered from the backend
C29_Witness ==
    \E r \in ReqIds :
      /\ life.lastRefresh = "failed" /\ connected
      /\ req[r].op = "access" /\ req[r].pc = "done" /\ req[r].hit

\* C30: on a route guarded by requireProjectAccess(minRole) the handler runs
\* only after verifyJWT, checkProjectAccess and requireRole(minRole) have
\* each called next(), in that order, with a role that reaches minRole; a
\* caller whose membership lookup found no record and had nothing cached
\* is answered 403, a failing membership lookup is answered 500, and in
\* both cases the handler has not run.
C30_GuardChain ==
    /\ (mut.pc = "handler" \/ mut.why = "handled")
          => /\ SubSeq(mut.trail, 1, 3)
                  = <<"verifyJWT", "checkProjectAccess", "requireRole">>
             /\ mut.lookup \in {"cached", "member"}
             /\ mut.userRole \in Roles
             /\ RoleLevel(mut.userRole) >= RoleLevel(mut.minRole)
    /\ "handler" \in {mut.trail[i] : i \in DOMAIN mut.trail}
          => mut.why = "handled"
    /\ mut.lookup = "noMember"
          => /\ mut.pc = "respond" /\ mut.status = 403
             /\ mut.trail = <<"verifyJWT">>
    /\ mut.lookup = "failed"
          => /\ mut.pc = "respond" /\ mut.status = 500
             /\ mut.trail = <<"verifyJWT">>

C30_Witness ==
    /\ mut.pc = "respond" /\ mut.lookup = "noMember" /\ mut.status = 403
    /\ cacheKind = "redis" /\ connected
    /\ store[<<mut.userId, mut.projectId>>] = NoMember
    /\ AccessEntryOf(cacheKind, accessCache, redisStore, mut.userId,
                     mut.projectId) = NoEntry

\* C31: requireRole(min) calls next() exactly when the role resolved for the
\* request stands at or above min in the order viewer < editor < owner;
\* otherwise it answers 403 and the chain ends there, the handler not run.
C31_RequireRole ==
    [][(mut.pc = "role" /\ mut'.pc # "role")
         => LET order == <<"viewer", "editor", "owner">>
                rank(x) == CHOOSE i \in 1..3 : order[i] = x
            IN  /\ mut.userRole \in Roles
                /\ IF rank(mut.userRole) >= rank(mut.minRole)
                   THEN /\ mut'.pc = "handler"
                        /\ mut'.trail = Append(mut.trail, "requireRole")
                   ELSE /\ mut'.pc = "respond" /\ mut'.status = 403
                        /\ mut'.trail = mut.trail
                        /\ mut'.why = "role"]_vars

C31_Witness ==
    /\ mut.pc = "respond" /\ mut.why = "role" /\ mut.status = 403
    /\ mut.userRole = "editor" /\ mut.minRole = "owner"
    /\ mut.trail = <<"verifyJWT", "checkProjectAccess">>

\* C32: a request whose resolved role is not one of owner, editor, viewer
\* never reaches the handler of a route guarded by requireRole(editor) or
\* requireRole(owner).
C32_UnknownRoleRejected ==
    (/\ mut.pc = "handler" \/ mut.why = "handled"
     /\ mut.minRole \in {"editor", "owner"})
       => mut.userRole \in Roles

\* C33: a DELETE member request naming the user who is the project's only
\* owner is answered 400 and goes no further: no removal from the store,
\* no invalidation call.
C33_LastOwnerKept ==
    \A h \in HandlerIds :
      (handlers[h].op = "remove" /\ handlers[h].sole)
        => /\ handlers[h].pc = "respond" /\ handlers[h].status = 400
           /\ handlers[h].calls = <<>>

\* C34: a project with an owner still has an owner after every step of the
\* member routes, whatever requests run and however they interleave.
C34_OwnerRemains ==
    [][(/\ ProjectOwners(container) # {}
        /\ container'.project = container.project)
         => ProjectOwners(container') # {}]_vars

\* C35: the store never holds two member documents for the same project
\* and user, whatever add-member requests run and however they interleave.
C35_OneRecordPerPair ==
    \A u \in Users, pid \in ProjectIds :
      Cardinality(MemberMatches(container, u, pid)) <= 1

\* C36: once DELETE of a project has responded no request passes
\* checkProjectAccess for that project id, whether access records for it
\* are still cached or not and whether or not a project has been created
\* again under the same client_name and slug.
C36_DeletedStaysClosed ==
    [][(mut.pc = "checking" /\ mut'.pc = "role")
          => mut.projectId \notin container.deleted]_vars

====
